---- MODULE Spec2Model ----
(***************************************************************************)
(* Session/Progress engine of clean-sanctuary: the reducer and the async   *)
(* handlers of src/context/AppContext.tsx, the AsyncStorage-backed storage *)
(* service of src/services/storage.ts, the points policy and room          *)
(* generator of the domain model, and the quest-detail screen's handlers.  *)
(*                                                                         *)
(* Instants are integers counting clock units since the Unix epoch; an ISO *)
(* string written by toISOString() and read back by new Date() is the same *)
(* instant, so both are the integer.  The local time zone is UTC.          *)
(* A nullable value is a sequence of length 0 (null, undefined, missing    *)
(* key) or 1.                                                              *)
(***************************************************************************)
EXTENDS Integers, Sequences, FiniteSets, TLC

(* ------------------------------ bounds --------------------------------- *)

\* First day (days since the epoch) on which the app is installed.
StartDay == 2
\* Last day the clock may reach in the session state machine.
MaxDay == 3
\* Last day the clock may reach when the app is followed over several days.
MaxStreakDay == 4
\* completeQuest() invocations over several days, and with faults.
MaxStreakCompletions == 3
MaxFaultCompletions == 2
\* completeQuest() invocations on the quest-detail screen.
MaxScreenCompletions == 1
\* Short clock ticks allowed after midnight of a day.
MaxShortTicks == 1
\* completeQuest() invocations that pass the active-quest guard.
MaxCompletions == 1
\* AsyncStorage / process faults injected in the fault specification.
MaxFaults == 1
\* Handlers in flight at once on the quest-detail screen.
MaxInflight == 2
\* Bedrooms the home editor can be set to (0 = studio), and completions in
\* the profile specification.
MaxBedrooms == 2
\* Completions in the specification of repeated presses of 'Complete Quest'.
MaxPressCompletions == 2
\* The longest duration, and the largest home, the helpers are applied to.
MaxDuration == 60
MaxHomeBedrooms == 3
MaxHomeBathrooms == 3
MaxProfileCompletions == 1
\* Clock resolution.
UnitsPerMinute == 2

(* ------------------------------- time ---------------------------------- *)

UnitsPerDay == 24 * 60 * UnitsPerMinute
\* A tick of one and a half minutes (rounded down to the clock resolution).
ShortTick == UnitsPerMinute + (UnitsPerMinute \div 2)
NoTime == -1

\* Date.getDay() of 1970-01-01 (a Thursday; Sunday = 0).
EpochWeekday == 4

\* getFullYear/getMonth/getDate of an instant, as one calendar-day number.
DayOf(t) == t \div UnitsPerDay
getDay(t) == (DayOf(t) + EpochWeekday) % 7

SameDay(a, b) == DayOf(a) = DayOf(b)

\* Math.round(n / d) for n >= 0: halves round up.
MathRound(n, d) == (2 * n + d) \div (2 * d)
Max(a, b) == IF a >= b THEN a ELSE b
Min(a, b) == IF a <= b THEN a ELSE b

Null == <<>>
Some(x) == <<x>>
IsNull(v) == v = <<>>
Val(v) == v[1]

(* ------------------------------ catalog -------------------------------- *)

NoQuest == "none"
\* The quests the session specifications start.
QuestIds == {"tidy", "deep"}

\* The ids of the catalog, in catalog order.
catalogOrder == <<"tidy", "deep", "night", "mon", "speed", "thu", "fri">>
CatalogIds == {catalogOrder[i] : i \in 1..Len(catalogOrder)}

\* A Quest: steps is steps.length, room is "none" when absent, and the
\* title is kept with what title.includes() finds in it: 'morning',
\* 'night' (lower-cased title) and the weekday it names (0: none).
Quest(id, title, category, frequency, duration, steps, room, morning, night, weekday) ==
    [id |-> id, title |-> title, category |-> category, frequency |-> frequency,
     duration |-> duration, steps |-> steps, room |-> room,
     morning |-> morning, night |-> night, weekday |-> weekday]

\* The read-only task catalog (supplied externally).
allQuests ==
    [q \in CatalogIds |->
        CASE q = "tidy" -> Quest(q, "Morning Tidy", "daily", "daily", 5, 2, "none",
                                 TRUE, FALSE, 0)
          [] q = "deep" -> Quest(q, "Deep Clean Bedroom", "deepClean", "monthly", 45, 1,
                                 "bedroom", FALSE, FALSE, 0)
          [] q = "night" -> Quest(q, "Night Reset", "daily", "daily", 10, 1, "none",
                                  FALSE, TRUE, 0)
          [] q = "mon" -> Quest(q, "Monday Bathroom Refresh", "weekly", "weekly", 15, 1,
                                "bathroom", FALSE, FALSE, 1)
          [] q = "speed" -> Quest(q, "Speed Clean Kitchen", "speedClean", "adhoc", 5, 1,
                                  "kitchen", FALSE, FALSE, 0)
          [] q = "thu" -> Quest(q, "Thursday Vacuum", "weekly", "weekly", 20, 1,
                                "none", FALSE, FALSE, 4)
          [] q = "fri" -> Quest(q, "Friday Laundry", "weekly", "weekly", 30, 1,
                                "none", FALSE, FALSE, 5)]

(* --------------------------- domain model ------------------------------ *)

communityUnlockThreshold == 300
weeklyMinimumForAccess == 100

\* A point table whose speedClean value is not capped.
getPointsUncapped(category, duration) ==
    CASE category = "daily" -> 100
      [] category = "weekly" -> 150
      [] category \in {"monthly", "seasonal"} -> 250
      [] category = "speedClean" -> 100 + (duration \div 5) * 10
      [] category = "deepClean" -> 300
      [] category = "declutter" -> 200
      [] category = "laundry" -> 150
      [] category = "pet" -> 150
      [] OTHER -> 100

\* PointsConfig.getPoints; an absent duration is 0 (falsy, like undefined).
getPoints(category, duration) ==
    CASE category = "daily" -> 100
      [] category = "weekly" -> 150
      [] category \in {"monthly", "seasonal"} -> 250
      [] category = "speedClean" ->
            IF duration = 0 THEN 100
            ELSE Min(200, 100 + (duration \div 5) * 10)
      [] category = "deepClean" -> 300
      [] category = "declutter" -> 200
      [] category = "laundry" -> 150
      [] category = "pet" -> 150
      [] OTHER -> 100

NoRoom == <<>>

Room(type, k, name) ==
    [id |-> <<type, k>>, type |-> type, name |-> name,
     lastCleaned |-> NoTime, lastDeepCleaned |-> NoTime]

\* A room generator that leaves the pet area out.
generateDefaultNamedRoomsNoPetArea(bedrooms, bathrooms, hasPets) ==
    << Room("kitchen", 1, <<"Kitchen">>),
       Room("livingRoom", 1, <<"Living Room">>),
       Room("entryway", 1, <<"Entryway">>) >>
    \o [i \in 1..bedrooms |->
          Room("bedroom", i, IF bedrooms = 1 THEN <<"Bedroom">> ELSE <<"Bedroom", i>>)]
    \o [i \in 1..((bathrooms + 1) \div 2) |-> Room("bathroom", i, <<"Bathroom", i>>)]

\* generateDefaultNamedRooms; bathrooms are counted in half bathrooms
\* (2 = one full bathroom, 3 = 1.5).  generateId() is abstracted to the
\* room's type and ordinal, unique within the generated list.
generateDefaultNamedRooms(bedrooms, bathrooms, hasPets) ==
    LET fullBathrooms == bathrooms \div 2
        hasHalfBath == bathrooms % 2 # 0
    IN  << Room("kitchen", 1, <<"Kitchen">>),
           Room("livingRoom", 1, <<"Living Room">>),
           Room("entryway", 1, <<"Entryway">>) >>
        \o [i \in 1..bedrooms |->
              Room("bedroom", i, IF bedrooms = 1 THEN <<"Bedroom">> ELSE <<"Bedroom", i>>)]
        \o [i \in 1..fullBathrooms |->
              Room("bathroom", i,
                   IF fullBathrooms = 1 /\ ~hasHalfBath
                   THEN <<"Bathroom">> ELSE <<"Bathroom", i>>)]
        \o (IF hasHalfBath
            THEN << Room("bathroom", fullBathrooms + 1, <<"Half Bath">>) >> ELSE << >>)
        \o (IF hasPets THEN << Room("petArea", 1, <<"Pet Area">>) >> ELSE << >>)

\* defaultHomeConfig: namedRooms is absent (the empty list).
defaultHomeConfig ==
    [bedrooms |-> 1, bathrooms |-> 2, hasPets |-> FALSE, namedRooms |-> << >>]

\* defaultUserProfile as the module is loaded.
defaultUserProfile ==
    [hasCompletedOnboarding |-> FALSE,
     mainStruggle |-> "none",
     energyLevel |-> "none",
     homeConfig |-> defaultHomeConfig,
     questsCompleted |-> 0,
     totalMinutesCleaned |-> 0,
     currentStreak |-> 0,
     longestStreak |-> 0,
     totalPoints |-> 0,
     weeklyPoints |-> 0,
     weeklyPointsResetDate |-> NoTime,
     hasCommunityAccess |-> FALSE,
     isCommunityAccessActive |-> FALSE,
     communityUnlockDate |-> NoTime]

(* ------------------------------- state --------------------------------- *)

VARIABLES
    state,        \* AppState held by useReducer
    store,        \* AsyncStorage: key -> nullable value
    defaults,     \* the module-level defaultUserProfile object (loadData mutates it)
    ledger,       \* Community Ledger: the contributePoints requests and their outcomes
    now,          \* the wall clock
    inflight,     \* async handlers in flight: closure, position and locals
    lastCall,     \* the session-API call that returned last, with its value
    completions,  \* completeQuest() invocations that passed the guard
    faults,       \* storage/process faults still to be injected
    catalog       \* the ids of allQuests the app is built with, in catalog order

vars == <<state, store, defaults, ledger, now, inflight, lastCall, completions, faults,
          catalog>>

KEYS == {"userProfile", "completedQuests", "questProgress", "lastActiveDate",
         "anonymousId", "cleaningHistory", "accountCreated", "pausedQuest"}

\* completedQuests = {} : no quest has a completion date.
EmptyCompleted == [q \in CatalogIds |-> NoTime]

\* initialState; its userProfile is a reference to the defaultUserProfile object d.
initialState(d) ==
    [isLoading |-> TRUE,
     userProfile |-> d,
     hasCompletedOnboarding |-> FALSE,
     activeQuest |-> NoQuest,
     activeRoomId |-> NoRoom,
     currentQuestStep |-> 0,
     questStartTime |-> NoTime,
     stepStartTime |-> NoTime,
     lastEarnedPoints |-> 0,
     completedQuests |-> EmptyCompleted,
     cleaningHistory |-> << >>,
     accountCreatedDate |-> NoTime,
     pausedQuest |-> Null]

(* ------------------------------ reducer -------------------------------- *)

START_QUEST(s, quest, startTime, stepStartTime, roomId) ==
    [s EXCEPT !.activeQuest = quest,
              !.activeRoomId = roomId,
              !.currentQuestStep = 0,
              !.questStartTime = startTime,
              !.stepStartTime = stepStartTime]

ADVANCE_QUEST_STEP(s, stepStartTime) ==
    [s EXCEPT !.currentQuestStep = s.currentQuestStep + 1,
              !.stepStartTime = stepStartTime]

PAUSE_QUEST(s) ==
    [s EXCEPT !.activeQuest = NoQuest,
              !.activeRoomId = NoRoom,
              !.currentQuestStep = 0,
              !.questStartTime = NoTime,
              !.stepStartTime = NoTime]

SET_PAUSED_QUEST(s, payload) == [s EXCEPT !.pausedQuest = payload]

\* A resume that restarts the task clock.
RESUME_QUEST_restartClock(s, quest, stepIndex, questStartTime, stepStartTime, roomId) ==
    [s EXCEPT !.activeQuest = quest,
              !.activeRoomId = roomId,
              !.currentQuestStep = stepIndex,
              !.questStartTime = stepStartTime,
              !.stepStartTime = stepStartTime,
              !.pausedQuest = Null]

RESUME_QUEST(s, quest, stepIndex, questStartTime, stepStartTime, roomId) ==
    [s EXCEPT !.activeQuest = quest,
              !.activeRoomId = roomId,
              !.currentQuestStep = stepIndex,
              !.questStartTime = questStartTime,
              !.stepStartTime = stepStartTime,
              !.pausedQuest = Null]

COMPLETE_QUEST(s, payload) ==
    [s EXCEPT !.activeQuest = NoQuest,
              !.activeRoomId = NoRoom,
              !.currentQuestStep = 0,
              !.questStartTime = NoTime,
              !.lastEarnedPoints = payload]

\* A skip that drops the paused quest with the session.
SKIP_QUEST_dropPaused(s) ==
    [s EXCEPT !.activeQuest = NoQuest,
              !.activeRoomId = NoRoom,
              !.currentQuestStep = 0,
              !.questStartTime = NoTime,
              !.pausedQuest = Null]

SKIP_QUEST(s) ==
    [s EXCEPT !.activeQuest = NoQuest,
              !.activeRoomId = NoRoom,
              !.currentQuestStep = 0,
              !.questStartTime = NoTime]

\* { ...profile, ...updates }: the fields updates names replace the profile's.
Spread(profile, updates) ==
    [f \in DOMAIN profile |-> IF f \in DOMAIN updates THEN updates[f] ELSE profile[f]]

UPDATE_USER_PROFILE(s, payload) ==
    LET updatedProfile == Spread(s.userProfile, payload) IN
    [s EXCEPT !.userProfile = updatedProfile,
              !.hasCompletedOnboarding = updatedProfile.hasCompletedOnboarding]

COMPLETE_ONBOARDING(s) ==
    [s EXCEPT !.userProfile.hasCompletedOnboarding = TRUE,
              !.hasCompletedOnboarding = TRUE]

SET_USER_PROFILE(s, payload) ==
    [s EXCEPT !.userProfile = payload,
              !.hasCompletedOnboarding = payload.hasCompletedOnboarding]

ADD_COMPLETED_QUEST(s, questId, date) ==
    [s EXCEPT !.completedQuests = [s.completedQuests EXCEPT ![questId] = date]]

ADD_CLEANING_SESSION(s, payload) ==
    [s EXCEPT !.cleaningHistory = Append(s.cleaningHistory, payload)]

RESET_ALL(d) == [initialState(d) EXCEPT !.isLoading = FALSE]

(* --------------------------- storage service --------------------------- *)
(* Every AsyncStorage call either succeeds (ok) or throws; the service     *)
(* catches the error, logs it and carries on.                              *)

setItem(st, key, v) == [st EXCEPT ![key] = Some(v)]
removeItem(st, key) == [st EXCEPT ![key] = Null]

saveUserProfile(st, profile, ok) ==
    IF ok THEN setItem(st, "userProfile", profile) ELSE st

\* { ...defaultUserProfile, ...JSON.parse(data) }: a saved profile holds every field.
loadUserProfile(st, d, ok) ==
    IF ok /\ ~IsNull(st["userProfile"]) THEN Val(st["userProfile"]) ELSE d

loadCompletedQuests(st, ok) ==
    IF ok /\ ~IsNull(st["completedQuests"]) THEN Val(st["completedQuests"])
    ELSE EmptyCompleted

\* A failed read inside loadCompletedQuests is caught there and yields {}.
saveCompletedQuest(st, questId, date, rdOk, wrOk) ==
    LET completed == [loadCompletedQuests(st, rdOk) EXCEPT ![questId] = date]
    IN  IF wrOk THEN setItem(st, "completedQuests", completed) ELSE st

\* A checkpoint write that is lost.
saveQuestProgressLost(st, progress, ok) == st

saveQuestProgress(st, progress, ok) ==
    IF ok THEN setItem(st, "questProgress", progress) ELSE st

clearQuestProgress(st, ok) ==
    IF ok THEN removeItem(st, "questProgress") ELSE st

loadCleaningHistory(st, ok) ==
    IF ok /\ ~IsNull(st["cleaningHistory"]) THEN Val(st["cleaningHistory"]) ELSE << >>

addCleaningSession(st, session, rdOk, wrOk) ==
    LET history == Append(loadCleaningHistory(st, rdOk), session)
    IN  IF wrOk THEN setItem(st, "cleaningHistory", history) ELSE st

\* An updateStreak that counts a second completion of the same day.
updateStreakProfileSameDay(st, profile, t, rdOk) ==
    IF ~rdOk THEN profile
    ELSE IF ~IsNull(st["lastActiveDate"])
    THEN LET lastActive == Val(st["lastActiveDate"])
         IN  IF DayOf(lastActive) \in {DayOf(t) - 1, DayOf(t)}
             THEN [profile EXCEPT
                     !.currentStreak = profile.currentStreak + 1,
                     !.longestStreak = Max(profile.longestStreak, profile.currentStreak + 1)]
             ELSE [profile EXCEPT !.currentStreak = 1]
    ELSE [profile EXCEPT !.currentStreak = 1]

\* updateStreak(profile) at instant t: the profile it returns.  A failed read
\* of the last-active date throws before the profile is touched.
updateStreakProfile(st, profile, t, rdOk) ==
    IF ~rdOk THEN profile
    ELSE IF ~IsNull(st["lastActiveDate"])
    THEN LET lastActive == Val(st["lastActiveDate"])
             isYesterday == DayOf(lastActive) = DayOf(t) - 1
             isToday == DayOf(lastActive) = DayOf(t)
         IN  IF isYesterday
             THEN [profile EXCEPT
                     !.currentStreak = profile.currentStreak + 1,
                     !.longestStreak = Max(profile.longestStreak, profile.currentStreak + 1)]
             ELSE IF ~isToday
             THEN [profile EXCEPT !.currentStreak = 1]
             ELSE profile
    ELSE [profile EXCEPT !.currentStreak = 1]

\* updateStreak(profile): the store it leaves.
updateStreakStore(st, t, rdOk, wrOk) ==
    IF rdOk /\ wrOk THEN setItem(st, "lastActiveDate", t) ELSE st

\* Monday 00:00 of the week of instant t.
currentWeekStart(t) ==
    LET dayOfWeek == getDay(t)
        diff == IF dayOfWeek = 0 THEN 6 ELSE dayOfWeek - 1
    IN  (DayOf(t) - diff) * UnitsPerDay

\* A reset that also fires when the recorded date is this week's Monday.
checkWeeklyResetInclusive(profile, t) ==
    IF profile.weeklyPointsResetDate = NoTime
       \/ profile.weeklyPointsResetDate <= currentWeekStart(t)
    THEN [profile EXCEPT
            !.weeklyPoints = 0,
            !.weeklyPointsResetDate = currentWeekStart(t),
            !.isCommunityAccessActive =
                IF profile.hasCommunityAccess THEN FALSE
                ELSE profile.isCommunityAccessActive]
    ELSE profile

checkWeeklyReset(profile, t) ==
    IF profile.weeklyPointsResetDate = NoTime
       \/ profile.weeklyPointsResetDate < currentWeekStart(t)
    THEN [profile EXCEPT
            !.weeklyPoints = 0,
            !.weeklyPointsResetDate = currentWeekStart(t),
            !.isCommunityAccessActive =
                IF profile.hasCommunityAccess THEN FALSE
                ELSE profile.isCommunityAccessActive]
    ELSE profile

\* 'anon_' + random + Date.now(): the id is named by the instant it is made at.
newAnonymousId(t) == <<"anon", t>>

getOrCreateAnonymousId(st, t, rdOk) ==
    IF rdOk /\ ~IsNull(st["anonymousId"]) THEN Val(st["anonymousId"])
    ELSE newAnonymousId(t)

getOrCreateAnonymousIdStore(st, t, rdOk, wrOk) ==
    IF rdOk /\ IsNull(st["anonymousId"]) /\ wrOk
    THEN setItem(st, "anonymousId", newAnonymousId(t)) ELSE st

getOrCreateAccountDate(st, t, rdOk) ==
    IF rdOk /\ ~IsNull(st["accountCreated"]) THEN Val(st["accountCreated"]) ELSE t

getOrCreateAccountDateStore(st, t, rdOk, wrOk) ==
    IF rdOk /\ IsNull(st["accountCreated"]) /\ wrOk
    THEN setItem(st, "accountCreated", t) ELSE st

\* A reset that removes the anonymous id with the rest.
resetAllDataWithAnonymousId(st, ok) ==
    IF ok
    THEN [k \in KEYS |-> IF k = "pausedQuest" THEN st[k] ELSE Null]
    ELSE st

\* multiRemove of the reset keys; the anonymous id is kept.
resetAllData(st, ok) ==
    IF ok
    THEN [k \in KEYS |->
            IF k \in {"userProfile", "completedQuests", "questProgress",
                      "lastActiveDate", "cleaningHistory", "accountCreated"}
            THEN Null ELSE st[k]]
    ELSE st

\* The paused-quest record of the Persistence Gateway (load/save/clear of a
\* single nullable PausedTask).
savePausedQuest(st, data, ok) == IF ok THEN setItem(st, "pausedQuest", data) ELSE st
loadPausedQuest(st, ok) == IF ok THEN st["pausedQuest"] ELSE Null
clearPausedQuest(st, ok) == IF ok THEN removeItem(st, "pausedQuest") ELSE st

(* --------------------------- community ledger -------------------------- *)

\* contributePoints: the request, and whether its remote transaction was
\* committed (delivered) or the promise was rejected.
contributePoints(l, userId, amount, delivered) ==
    Append(l, [oderId |-> userId, amount |-> amount, delivered |-> delivered])

(* ----------------------- handlers in flight ---------------------------- *)
(* An async handler closes over the state of the render it was created in  *)
(* (cl) and keeps its locals (loc) across its awaits; pc names the await   *)
(* it is suspended at.  A dispatch acts on the current state.              *)

NoLoc ==
    [t |-> NoTime, actualMinutes |-> 0, earnedPoints |-> 0,
     updatedProfile |-> defaultUserProfile, ledger |-> "none",
     profileSaved |-> TRUE, pausedData |-> Null]

Frame(op, pc, cl, loc) == [op |-> op, pc |-> pc, cl |-> cl, loc |-> loc]

\* What the caller of a function saw: the function, the value it returned,
\* whether it touched the ledger and wrote the profile, the session a pause
\* captured (kept through the resume that follows it), and the quest and
\* flags a recommendation returned.
NoSession == << >>
Report(op, ret, led, saved, before) ==
    [op |-> op, ret |-> ret, ledger |-> led, profileSaved |-> saved, before |-> before,
     quest |-> NoQuest, isCatchUp |-> FALSE, todayComplete |-> FALSE,
     args |-> << >>, size |-> "none"]
Returned(op, ret) == Report(op, ret, "none", TRUE, NoSession)

SessionOf(s) ==
    << [quest |-> s.activeQuest, stepIndex |-> s.currentQuestStep,
        roomId |-> s.activeRoomId, questStartTime |-> s.questStartTime] >>

DropFrame(i) == [j \in 1..(Len(inflight) - 1) |->
                    IF j < i THEN inflight[j] ELSE inflight[j + 1]]

\* Outcomes an AsyncStorage call can have: it throws only while faults remain.
Oks == IF faults > 0 THEN BOOLEAN ELSE {TRUE}
Cost(ok) == IF ok THEN 0 ELSE 1

\* The host lets a session-API call begin once loading is over and fewer
\* than k handlers are in flight.
CanCall(k) == ~state.isLoading /\ Len(inflight) < k

\* handleStartQuest of the quests tab: a bedroom or bathroom quest in a home
\* with exactly one room of that type targets it; no other quest targets a
\* room (with several rooms of the type the picker offers each of them).
RoomInputs(s, quest) ==
    LET namedRooms == s.userProfile.homeConfig.namedRooms
        roomsOfType == SelectSeq(namedRooms, LAMBDA r : r.type = allQuests[quest].room)
    IN  IF allQuests[quest].room \in {"bedroom", "bathroom"} /\ Len(roomsOfType) >= 1
        THEN {roomsOfType[i].id : i \in 1..Len(roomsOfType)}
        ELSE {NoRoom}

(* ------------------------------ loadData ------------------------------- *)

\* The migration of loadData: rooms of the types the list lacks are appended.
ensureNamedRooms(profile) ==
    LET cfg == profile.homeConfig
        allRooms == generateDefaultNamedRooms(cfg.bedrooms, cfg.bathrooms, cfg.hasPets)
        existingTypes == {cfg.namedRooms[i].type : i \in 1..Len(cfg.namedRooms)}
        missingRooms == SelectSeq(allRooms, LAMBDA r : r.type \notin existingTypes)
    IN  IF Len(cfg.namedRooms) = 0
        THEN [profile EXCEPT !.homeConfig.namedRooms = allRooms]
        ELSE [profile EXCEPT !.homeConfig.namedRooms = cfg.namedRooms \o missingRooms]

\* The profile loadData dispatches at instant t.
loadedProfile(st, d, t) == ensureNamedRooms(checkWeeklyReset(loadUserProfile(st, d, TRUE), t))

LoadData ==
    /\ state.isLoading
    /\ inflight = << >>
    /\ LET profile == loadedProfile(store, defaults, now)
           st1 == saveUserProfile(store, profile, TRUE)
           st2 == getOrCreateAccountDateStore(st1, now, TRUE, TRUE)
       IN  /\ state' = [state EXCEPT
                          !.userProfile = profile,
                          !.hasCompletedOnboarding = profile.hasCompletedOnboarding,
                          !.completedQuests = loadCompletedQuests(st1, TRUE),
                          !.cleaningHistory = loadCleaningHistory(st1, TRUE),
                          !.accountCreatedDate = getOrCreateAccountDate(st1, now, TRUE),
                          !.pausedQuest = loadPausedQuest(st1, TRUE),
                          !.isLoading = FALSE]
           /\ store' = st2
           \* With nothing stored, loadUserProfile returns the defaultUserProfile
           \* object itself, and the assignments above are made to it.
           /\ defaults' = IF IsNull(store["userProfile"]) THEN profile ELSE defaults
    /\ lastCall' = Returned("loadData", 0)
    /\ UNCHANGED <<catalog, ledger, now, inflight, completions, faults>>

\* The process ends while no handler is running and the app is opened again.
Restart ==
    /\ ~state.isLoading
    /\ inflight = << >>
    /\ state' = initialState(defaultUserProfile)
    /\ defaults' = defaultUserProfile
    /\ lastCall' = Returned("restart", 0)
    /\ UNCHANGED <<catalog, store, ledger, now, inflight, completions, faults>>

\* The process is killed while a handler is suspended at an await.
Crash ==
    /\ inflight # << >>
    /\ faults > 0
    /\ state' = initialState(defaultUserProfile)
    /\ defaults' = defaultUserProfile
    /\ inflight' = << >>
    /\ faults' = faults - 1
    /\ lastCall' = Returned("crash", 0)
    /\ UNCHANGED <<catalog, store, ledger, now, completions>>

(* ------------------------------- clock --------------------------------- *)

\* Time passes while the user works on a step.
TickShort ==
    /\ inflight = << >>
    /\ ~state.isLoading
    /\ state.activeQuest # NoQuest
    /\ (now % UnitsPerDay) + ShortTick <= MaxShortTicks * ShortTick
    /\ now' = now + ShortTick
    /\ UNCHANGED <<catalog, state, store, defaults, ledger, inflight, lastCall, completions, faults>>

\* The next midnight is reached.
TickDay(maxDay) ==
    /\ inflight = << >>
    /\ ~state.isLoading
    /\ DayOf(now) < maxDay
    /\ now' = (DayOf(now) + 1) * UnitsPerDay
    /\ UNCHANGED <<catalog, state, store, defaults, ledger, inflight, lastCall, completions, faults>>

(* ------------------------- start, advance, skip ------------------------ *)

StartQuestOf(quests, k, maxCompletions) ==
    /\ CanCall(k)
    /\ completions < maxCompletions
    /\ \E quest \in quests, ok \in Oks : \E roomId \in RoomInputs(state, quest) :
          /\ state' = START_QUEST(state, quest, now, now, roomId)
          /\ store' = saveQuestProgress(store,
                         [questId |-> quest, currentStepIndex |-> 0, startedAt |-> now], ok)
          /\ faults' = faults - Cost(ok)
    /\ lastCall' = Returned("startQuest", 0)
    /\ UNCHANGED <<catalog, defaults, ledger, now, inflight, completions>>

StartQuest(k, maxCompletions) == StartQuestOf(QuestIds, k, maxCompletions)

\* The two conditions advanceQuestStep tests on the state it closed over.
advanceGuard(cl) ==
    /\ cl.activeQuest # NoQuest
    /\ cl.currentQuestStep < allQuests[cl.activeQuest].steps - 1

\* advanceQuestStep run with closure cl.
advanceQuestStep(cl, ok) ==
    IF advanceGuard(cl)
    THEN /\ state' = ADVANCE_QUEST_STEP(state, now)
         /\ store' = saveQuestProgress(store,
                        [questId |-> cl.activeQuest,
                         currentStepIndex |-> cl.currentQuestStep + 1,
                         startedAt |-> now], ok)
         /\ faults' = faults - Cost(ok)
    ELSE ok /\ UNCHANGED <<catalog, state, store, faults>>

AdvanceQuestStep(k) ==
    /\ CanCall(k)
    /\ \E ok \in Oks : advanceQuestStep(state, ok)
    /\ lastCall' = Returned("advanceQuestStep", 0)
    /\ UNCHANGED <<catalog, defaults, ledger, now, inflight, completions>>

SkipQuest(k) ==
    /\ CanCall(k)
    /\ \E ok \in Oks :
          /\ state' = SKIP_QUEST(state)
          /\ store' = clearQuestProgress(store, ok)
          /\ faults' = faults - Cost(ok)
    /\ lastCall' = Report("skipQuest", 0, "none", TRUE,
                          IF state.activeQuest # NoQuest THEN SessionOf(state)
                          ELSE NoSession)
    /\ UNCHANGED <<catalog, defaults, ledger, now, inflight, completions>>

ResetAllData(k) ==
    /\ CanCall(k)
    /\ \E ok \in Oks :
          /\ store' = resetAllData(store, ok)
          /\ faults' = faults - Cost(ok)
    /\ state' = RESET_ALL(defaults)
    /\ lastCall' = Returned("resetAllData", 0)
    /\ UNCHANGED <<catalog, defaults, ledger, now, inflight, completions>>

(* ---------------------------- completeQuest ---------------------------- *)

completeGuard(cl) == cl.activeQuest # NoQuest

\* actualMinutes without the floor of one minute.
actualMinutesUnclamped(cl, t) ==
    IF cl.questStartTime # NoTime
    THEN MathRound(t - cl.questStartTime, UnitsPerMinute)
    ELSE allQuests[cl.activeQuest].duration

\* actualMinutes of completeQuest at instant t.
actualMinutesOf(cl, t) ==
    IF cl.questStartTime # NoTime
    THEN Max(1, MathRound(t - cl.questStartTime, UnitsPerMinute))
    ELSE allQuests[cl.activeQuest].duration

cleaningSessionOf(cl, t) ==
    [questId |-> cl.activeQuest,
     questTitle |-> allQuests[cl.activeQuest].title,
     date |-> DayOf(t),
     actualMinutes |-> actualMinutesOf(cl, t),
     completedAt |-> t]

earnedPointsOf(cl) ==
    getPoints(allQuests[cl.activeQuest].category, allQuests[cl.activeQuest].duration)

\* A stamping that marks every targeted room deep-cleaned.
updatedNamedRoomsAlwaysDeep(cl, t) ==
    LET rooms == cl.userProfile.homeConfig.namedRooms
    IN  [i \in 1..Len(rooms) |->
            IF rooms[i].id = cl.activeRoomId
            THEN [rooms[i] EXCEPT !.lastCleaned = t, !.lastDeepCleaned = t]
            ELSE rooms[i]]

\* The room list with the targeted room stamped.
updatedNamedRoomsOf(cl, t) ==
    LET rooms == cl.userProfile.homeConfig.namedRooms
        isDeepClean == allQuests[cl.activeQuest].category = "deepClean"
    IN  IF cl.activeRoomId # NoRoom
        THEN [i \in 1..Len(rooms) |->
                IF rooms[i].id = cl.activeRoomId
                THEN [rooms[i] EXCEPT
                        !.lastCleaned = t,
                        !.lastDeepCleaned = IF isDeepClean THEN t ELSE @]
                ELSE rooms[i]]
        ELSE rooms

\* An unlock check that does not test hasCommunityAccess, and a weekly check
\* that does not test it either.
communityChecksRepeated(profile, t) ==
    LET unlocked ==
            IF profile.totalPoints >= communityUnlockThreshold
            THEN [profile EXCEPT !.hasCommunityAccess = TRUE,
                                 !.communityUnlockDate = t]
            ELSE profile
    IN  IF unlocked.hasCommunityAccess /\ unlocked.weeklyPoints >= weeklyMinimumForAccess
        THEN [unlocked EXCEPT !.isCommunityAccessActive = TRUE]
        ELSE unlocked

communityChecksNoAccessTest(profile, t) ==
    LET unlocked ==
            IF ~profile.hasCommunityAccess
               /\ profile.totalPoints >= communityUnlockThreshold
            THEN [profile EXCEPT !.hasCommunityAccess = TRUE,
                                 !.communityUnlockDate = t]
            ELSE profile
    IN  IF unlocked.weeklyPoints >= weeklyMinimumForAccess
        THEN [unlocked EXCEPT !.isCommunityAccessActive = TRUE]
        ELSE unlocked

\* Community unlock, then weekly community access.
communityChecks(profile, t) ==
    LET unlocked ==
            IF ~profile.hasCommunityAccess
               /\ profile.totalPoints >= communityUnlockThreshold
            THEN [profile EXCEPT !.hasCommunityAccess = TRUE,
                                 !.communityUnlockDate = t]
            ELSE profile
    IN  IF unlocked.hasCommunityAccess /\ unlocked.weeklyPoints >= weeklyMinimumForAccess
        THEN [unlocked EXCEPT !.isCommunityAccessActive = TRUE]
        ELSE unlocked

\* updatedProfile before the streak update, built from the closed-over profile.
updatedProfileOf(cl, t) ==
    communityChecks(
        [cl.userProfile EXCEPT
            !.questsCompleted = @ + 1,
            !.totalMinutesCleaned = @ + actualMinutesOf(cl, t),
            !.totalPoints = @ + earnedPointsOf(cl),
            !.weeklyPoints = @ + earnedPointsOf(cl),
            !.homeConfig.namedRooms = updatedNamedRoomsOf(cl, t)], t)

\* completeQuest() is called: the guard, the locals, and saveCompletedQuest.
CompleteQuest(k, maxCompletions) ==
    /\ CanCall(k)
    /\ IF ~completeGuard(state)
       THEN /\ lastCall' = Returned("completeQuest", 0)
            /\ UNCHANGED <<catalog, state, store, defaults, ledger, now, inflight,
                           completions, faults>>
       ELSE /\ completions < maxCompletions
            /\ \E rdOk \in Oks, wrOk \in Oks :
                  /\ Cost(rdOk) + Cost(wrOk) <= faults
                  /\ store' = saveCompletedQuest(store, state.activeQuest, now, rdOk, wrOk)
                  /\ faults' = faults - (Cost(rdOk) + Cost(wrOk))
            /\ inflight' = Append(inflight,
                              Frame("completeQuest", "addCleaningSession", state,
                                    [NoLoc EXCEPT
                                        !.t = now,
                                        !.actualMinutes = actualMinutesOf(state, now),
                                        !.earnedPoints = earnedPointsOf(state)]))
            /\ completions' = completions + 1
            /\ UNCHANGED <<catalog, state, defaults, ledger, now, lastCall>>

\* ADD_COMPLETED_QUEST is dispatched and addCleaningSession is awaited.
CompleteAddSession(i) ==
    LET f == inflight[i] IN
    /\ f.op = "completeQuest" /\ f.pc = "addCleaningSession"
    /\ state' = ADD_COMPLETED_QUEST(state, f.cl.activeQuest, f.loc.t)
    /\ \E rdOk \in Oks, wrOk \in Oks :
          /\ Cost(rdOk) + Cost(wrOk) <= faults
          /\ store' = addCleaningSession(store, cleaningSessionOf(f.cl, f.loc.t), rdOk, wrOk)
          /\ faults' = faults - (Cost(rdOk) + Cost(wrOk))
    /\ inflight' = [inflight EXCEPT ![i].pc = "contribute"]
    /\ UNCHANGED <<catalog, defaults, ledger, now, lastCall, completions>>

\* A completeQuest without the try/catch: a rejected contribution ends it.
contributionRethrown(delivered) == delivered

\* The try/catch around the contribution: whether completeQuest goes on after
\* contributePoints has settled.
contributionSettled(delivered) == TRUE

\* ADD_CLEANING_SESSION is dispatched, updatedProfile is built and, with
\* community access, the points are contributed; an error is caught and logged.
CompleteContribute(i) ==
    LET f == inflight[i]
        profile == updatedProfileOf(f.cl, f.loc.t)
    IN
    /\ f.op = "completeQuest" /\ f.pc = "contribute"
    /\ state' = ADD_CLEANING_SESSION(state, cleaningSessionOf(f.cl, f.loc.t))
    /\ IF profile.hasCommunityAccess
       THEN \E rdOk \in Oks, wrOk \in Oks, delivered \in BOOLEAN :
               /\ Cost(rdOk) + Cost(wrOk) <= faults
               /\ (rdOk /\ ~IsNull(store["anonymousId"])) => wrOk
               /\ store' = getOrCreateAnonymousIdStore(store, now, rdOk, wrOk)
               /\ faults' = faults - (Cost(rdOk) + Cost(wrOk))
               /\ ledger' = contributePoints(ledger,
                                getOrCreateAnonymousId(store, now, rdOk),
                                f.loc.earnedPoints, delivered)
               /\ inflight' =
                     IF contributionSettled(delivered)
                     THEN [inflight EXCEPT
                             ![i].pc = "updateStreak",
                             ![i].loc.updatedProfile = profile,
                             ![i].loc.ledger = IF delivered THEN "ok" ELSE "failed"]
                     ELSE DropFrame(i)
       ELSE /\ inflight' = [inflight EXCEPT
                     ![i].pc = "updateStreak",
                     ![i].loc.updatedProfile = profile]
            /\ UNCHANGED <<catalog, store, ledger, faults>>
    /\ UNCHANGED <<catalog, defaults, now, lastCall, completions>>

CompleteUpdateStreak(i) ==
    LET f == inflight[i] IN
    /\ f.op = "completeQuest" /\ f.pc = "updateStreak"
    /\ \E rdOk \in Oks, wrOk \in Oks :
          /\ Cost(rdOk) + Cost(wrOk) <= faults
          /\ ~rdOk => wrOk
          /\ inflight' = [inflight EXCEPT
                ![i].pc = "saveUserProfile",
                ![i].loc.updatedProfile =
                    updateStreakProfile(store, f.loc.updatedProfile, now, rdOk)]
          /\ store' = updateStreakStore(store, now, rdOk, wrOk)
          /\ faults' = faults - (Cost(rdOk) + Cost(wrOk))
    /\ UNCHANGED <<catalog, state, defaults, ledger, now, lastCall, completions>>

CompleteSaveProfile(i) ==
    LET f == inflight[i] IN
    /\ f.op = "completeQuest" /\ f.pc = "saveUserProfile"
    /\ \E ok \in Oks :
          /\ store' = saveUserProfile(store, f.loc.updatedProfile, ok)
          /\ faults' = faults - Cost(ok)
          /\ inflight' = [inflight EXCEPT
                ![i].pc = "clearQuestProgress",
                ![i].loc.profileSaved = ok]
    /\ UNCHANGED <<catalog, state, defaults, ledger, now, lastCall, completions>>

\* clearQuestProgress is awaited, SET_USER_PROFILE and COMPLETE_QUEST are
\* dispatched, and the earned points are returned.
CompleteFinish(i) ==
    LET f == inflight[i] IN
    /\ f.op = "completeQuest" /\ f.pc = "clearQuestProgress"
    /\ \E ok \in Oks :
          /\ store' = clearQuestProgress(store, ok)
          /\ faults' = faults - Cost(ok)
    /\ state' = COMPLETE_QUEST(SET_USER_PROFILE(state, f.loc.updatedProfile),
                               f.loc.earnedPoints)
    /\ inflight' = DropFrame(i)
    /\ lastCall' = Report("completeQuest", f.loc.earnedPoints, f.loc.ledger,
                          f.loc.profileSaved, SessionOf(f.cl))
    /\ UNCHANGED <<catalog, defaults, ledger, now, completions>>

(* ----------------------- pause, resume, dismiss ------------------------ *)

pauseGuard(cl) ==
    /\ cl.activeQuest # NoQuest
    /\ cl.questStartTime # NoTime
    /\ cl.stepStartTime # NoTime

pausedDataOf(cl, t) ==
    [quest |-> cl.activeQuest,
     currentStepIndex |-> cl.currentQuestStep,
     roomId |-> cl.activeRoomId,
     pausedAt |-> t,
     stepStartedAt |-> cl.stepStartTime,
     questStartTime |-> cl.questStartTime]

\* pauseQuest() is called: the guard, the snapshot, and savePausedQuest.
PauseQuest(k) ==
    /\ CanCall(k)
    /\ IF ~pauseGuard(state)
       THEN /\ lastCall' = Returned("pauseQuest", 0)
            /\ UNCHANGED <<catalog, state, store, defaults, ledger, now, inflight,
                           completions, faults>>
       ELSE /\ \E ok \in Oks :
                  /\ store' = savePausedQuest(store, pausedDataOf(state, now), ok)
                  /\ faults' = faults - Cost(ok)
            /\ inflight' = Append(inflight,
                              Frame("pauseQuest", "clearQuestProgress", state,
                                    [NoLoc EXCEPT
                                        !.t = now,
                                        !.pausedData = Some(pausedDataOf(state, now))]))
            /\ UNCHANGED <<catalog, state, defaults, ledger, now, lastCall, completions>>

\* clearQuestProgress is awaited; SET_PAUSED_QUEST and PAUSE_QUEST are dispatched.
PauseFinish(i) ==
    LET f == inflight[i] IN
    /\ f.op = "pauseQuest" /\ f.pc = "clearQuestProgress"
    /\ \E ok \in Oks :
          /\ store' = clearQuestProgress(store, ok)
          /\ faults' = faults - Cost(ok)
    /\ state' = PAUSE_QUEST(SET_PAUSED_QUEST(state, f.loc.pausedData))
    /\ inflight' = DropFrame(i)
    /\ lastCall' = Report("pauseQuest", 0, "none", TRUE, SessionOf(f.cl))
    /\ UNCHANGED <<catalog, defaults, ledger, now, completions>>

resumeGuard(cl) == ~IsNull(cl.pausedQuest)

\* resumeQuest() is called: the guard, RESUME_QUEST, and saveQuestProgress.
ResumeQuest(k) ==
    /\ CanCall(k)
    /\ IF ~resumeGuard(state)
       THEN /\ lastCall' = Returned("resumeQuest", 0)
            /\ UNCHANGED <<catalog, state, store, defaults, ledger, now, inflight,
                           completions, faults>>
       ELSE LET p == Val(state.pausedQuest) IN
            /\ state' = RESUME_QUEST(state, p.quest, p.currentStepIndex,
                                     p.questStartTime, now, p.roomId)
            /\ \E ok \in Oks :
                  /\ store' = saveQuestProgress(store,
                                 [questId |-> p.quest,
                                  currentStepIndex |-> p.currentStepIndex,
                                  startedAt |-> now], ok)
                  /\ faults' = faults - Cost(ok)
            /\ inflight' = Append(inflight,
                              Frame("resumeQuest", "clearPausedQuest", state, NoLoc))
            /\ UNCHANGED <<catalog, defaults, ledger, now, lastCall, completions>>

ResumeFinish(i) ==
    LET f == inflight[i] IN
    /\ f.op = "resumeQuest" /\ f.pc = "clearPausedQuest"
    /\ \E ok \in Oks :
          /\ store' = clearPausedQuest(store, ok)
          /\ faults' = faults - Cost(ok)
    /\ inflight' = DropFrame(i)
    /\ lastCall' = Report("resumeQuest", 0, "none", TRUE,
                          IF lastCall.op = "pauseQuest" THEN lastCall.before
                          ELSE NoSession)
    /\ UNCHANGED <<catalog, state, defaults, ledger, now, completions>>

DismissPausedQuest(k) ==
    /\ CanCall(k)
    /\ \E ok \in Oks :
          /\ store' = clearPausedQuest(store, ok)
          /\ faults' = faults - Cost(ok)
    /\ state' = SET_PAUSED_QUEST(state, Null)
    /\ lastCall' = Returned("dismissPausedQuest", 0)
    /\ UNCHANGED <<catalog, defaults, ledger, now, inflight, completions>>

(* --------------------- profile edits and onboarding -------------------- *)

\* updateProfile of the render with state cl: UPDATE_USER_PROFILE acts on the
\* current state, the profile saved is built from cl.
updateProfile(cl, updates, ok) ==
    /\ state' = UPDATE_USER_PROFILE(state, updates)
    /\ store' = saveUserProfile(store, Spread(cl.userProfile, updates), ok)
    /\ faults' = faults - Cost(ok)

completeOnboarding(cl, ok) ==
    /\ state' = COMPLETE_ONBOARDING(state)
    /\ store' = saveUserProfile(store,
                    [cl.userProfile EXCEPT !.hasCompletedOnboarding = TRUE], ok)
    /\ faults' = faults - Cost(ok)

EnergyInputs == {"high"}
StruggleInputs == {"starting"}
\* Bathroom counts in half bathrooms: none, one, one and a half.
BathroomInputs == {0, 3}
NameInputs == {<<"Den">>}
\* The rooms the user renames.
RenameTypes == {"bedroom"}

\* The profile tab's energy picker.
HandleUpdateEnergy(k) ==
    /\ CanCall(k)
    /\ \E level \in EnergyInputs, ok \in Oks :
          updateProfile(state, [energyLevel |-> level], ok)
    /\ lastCall' = Returned("updateProfile", 0)
    /\ UNCHANGED <<catalog, defaults, ledger, now, inflight, completions>>

\* The updates the home editor sends: one of the three counts at a time.
HomeConfigUpdates ==
    {[bedrooms |-> b] : b \in 0..MaxBedrooms}
        \cup {[bathrooms |-> b] : b \in BathroomInputs}
        \cup {[hasPets |-> h] : h \in BOOLEAN}

\* newConfig of handleUpdateHomeConfig.
newConfigOf(homeConfig, updates) ==
    LET newConfig == Spread(homeConfig, updates) IN
    IF DOMAIN updates \cap {"bedrooms", "bathrooms", "hasPets"} # {}
    THEN [newConfig EXCEPT !.namedRooms =
            generateDefaultNamedRooms(newConfig.bedrooms, newConfig.bathrooms,
                                      newConfig.hasPets)]
    ELSE newConfig

HandleUpdateHomeConfig(k) ==
    /\ CanCall(k)
    /\ \E updates \in HomeConfigUpdates, ok \in Oks :
          updateProfile(state,
              [homeConfig |-> newConfigOf(state.userProfile.homeConfig, updates)], ok)
    /\ lastCall' = Returned("handleUpdateHomeConfig", 0)
    /\ UNCHANGED <<catalog, defaults, ledger, now, inflight, completions>>

HandleUpdateRoomName(k) ==
    /\ CanCall(k)
    /\ LET rooms == state.userProfile.homeConfig.namedRooms IN
       \E i \in DOMAIN rooms, newName \in NameInputs, ok \in Oks :
          rooms[i].type \in RenameTypes /\
          LET updatedRooms == [j \in DOMAIN rooms |->
                                  IF rooms[j].id = rooms[i].id
                                  THEN [rooms[j] EXCEPT !.name = newName]
                                  ELSE rooms[j]]
          IN  updateProfile(state,
                  [homeConfig |-> [state.userProfile.homeConfig
                                      EXCEPT !.namedRooms = updatedRooms]], ok)
    /\ lastCall' = Returned("handleUpdateRoomName", 0)
    /\ UNCHANGED <<catalog, defaults, ledger, now, inflight, completions>>

\* finish of the onboarding screen is called: finalConfig and the awaited
\* updateProfile.  The screen's homeConfig starts from defaultHomeConfig.
Finish(k) ==
    /\ CanCall(k)
    /\ ~state.hasCompletedOnboarding
    /\ \E energy \in EnergyInputs, struggle \in StruggleInputs,
          bedrooms \in 1..MaxBedrooms, hasPets \in BOOLEAN, ok \in Oks :
          LET homeConfig == [defaultHomeConfig EXCEPT !.bedrooms = bedrooms,
                                                      !.hasPets = hasPets]
              finalConfig == [homeConfig EXCEPT !.namedRooms =
                                 generateDefaultNamedRooms(homeConfig.bedrooms,
                                     homeConfig.bathrooms, homeConfig.hasPets)]
          IN  updateProfile(state,
                  [mainStruggle |-> struggle, energyLevel |-> energy,
                   homeConfig |-> finalConfig], ok)
    /\ inflight' = Append(inflight, Frame("finish", "completeOnboarding", state, NoLoc))
    /\ UNCHANGED <<catalog, defaults, ledger, now, lastCall, completions>>

\* finish goes on to the completeOnboarding of the render it was created in.
FinishCompleteOnboarding(i) ==
    LET f == inflight[i] IN
    /\ f.op = "finish" /\ f.pc = "completeOnboarding"
    /\ \E ok \in Oks : completeOnboarding(f.cl, ok)
    /\ inflight' = DropFrame(i)
    /\ lastCall' = Returned("finish", 0)
    /\ UNCHANGED <<catalog, defaults, ledger, now, completions>>

(* --------------------------- recommendations --------------------------- *)

\* Date.getHours().
getHours(t) == (t % UnitsPerDay) \div (60 * UnitsPerMinute)

isQuestCompletedToday(questId, completedQuests, t) ==
    /\ completedQuests[questId] # NoTime
    /\ DayOf(completedQuests[questId]) = DayOf(t)

getCompletedQuestIdsToday(completedQuests, t) ==
    {q \in DOMAIN completedQuests : isQuestCompletedToday(q, completedQuests, t)}

\* getHomeSize; one bathroom is two half bathrooms.
getHomeSize(config) ==
    IF config.bedrooms = 0 \/ (config.bedrooms = 1 /\ config.bathrooms = 2)
    THEN "small"
    ELSE IF config.bedrooms <= 2 /\ config.bathrooms <= 4
    THEN "medium"
    ELSE "large"

getSuggestedDuration(energyLevel) ==
    CASE energyLevel = "veryLow" -> 5
      [] energyLevel = "low" -> 10
      [] energyLevel = "medium" -> 20
      [] energyLevel = "high" -> 45
      [] OTHER -> 15

calculateScore(quest, profile, t) ==
    LET hour == getHours(t)
        dayOfWeek == getDay(t)
        suggestedMax == getSuggestedDuration(profile.energyLevel)
        homeSize == getHomeSize(profile.homeConfig)
        timeOfDay == IF hour < 12 /\ quest.morning THEN 20
                     ELSE IF hour >= 17 /\ quest.night THEN 20 ELSE 0
        energy == IF profile.energyLevel # "none"
                  THEN IF quest.duration <= suggestedMax THEN 15
                       ELSE IF quest.duration <= suggestedMax * 2 THEN 5 ELSE 0
                  ELSE 0
        home == CASE homeSize = "small" -> IF quest.category = "speedClean" THEN 10 ELSE 0
                  [] homeSize = "medium" -> IF quest.category = "daily" THEN 10 ELSE 0
                  [] OTHER -> IF quest.room # "none" THEN 10 ELSE 0
        weekend == IF quest.frequency = "weekly" /\ dayOfWeek \in {0, 6} THEN 10 ELSE 0
        struggle == CASE profile.mainStruggle = "starting" -> IF quest.steps <= 5 THEN 15 ELSE 0
                      [] profile.mainStruggle = "finishing" -> IF quest.duration <= 10 THEN 15 ELSE 0
                      [] profile.mainStruggle = "deciding" -> 10
                      [] OTHER -> 0
    IN  timeOfDay + energy + home + weekend + struggle

\* An ordering that leaves the quests in catalog order.
sortedByCatalogOrder(quests, profile, t) == quests

\* .map(score).sort((a, b) => b.score - a.score): descending by score, quests
\* of equal score in their order in the list (the sort is stable).
sortedByScore(quests, profile, t) ==
    LET score(i) == calculateScore(allQuests[quests[i]], profile, t)
        rank(i) == Cardinality({j \in DOMAIN quests :
                        score(j) > score(i) \/ (score(j) = score(i) /\ j < i)}) + 1
    IN  [k \in DOMAIN quests |-> quests[CHOOSE i \in DOMAIN quests : rank(i) = k]]

\* title.includes(<the name of weekday d>).
titleIncludesDay(quest, d) == quest.weekday = d

Recommendation(quest, isCatchUp, todayComplete) ==
    [quest |-> quest, isCatchUp |-> isCatchUp, todayComplete |-> todayComplete]

\* A flag that does not ask for a completion today.
todayCompleteWithoutCompletion(uncompletedTodayQuests, completedToday) ==
    Len(uncompletedTodayQuests) = 0

\* const todayComplete.
todayCompleteOf(uncompletedTodayQuests, completedToday) ==
    Len(uncompletedTodayQuests) = 0 /\ completedToday # {}

\* A test that counts Friday's quest as missed on Saturday.
isMissedThroughFriday(quest, dayOfWeek) ==
    \E d \in 1..5 : dayOfWeek > d /\ titleIncludesDay(quest, d)

\* The four tests of the missed-weekly filter: the title names a day, Monday
\* to Thursday, earlier in the week than today.
isMissed(quest, dayOfWeek) ==
    \E d \in 1..4 : dayOfWeek > d /\ titleIncludesDay(quest, d)

\* A candidate list that keeps the quests completed today.
availableQuestsWithCompleted(completedToday) == catalog

\* const availableQuests.
availableQuestsOf(completedToday) ==
    SelectSeq(catalog, LAMBDA q : q \notin completedToday)

\* getRecommendedQuestWithContext: the results it can return; the picks made
\* with Math.random() can return any member of the list they pick from.
getRecommendedQuestWithContext(profile, completedQuests, t) ==
    LET completedToday == getCompletedQuestIdsToday(completedQuests, t)
        dayOfWeek == getDay(t)
        todaysQuests == SelectSeq(catalog, LAMBDA q :
            \/ allQuests[q].category = "daily"
            \/ /\ allQuests[q].category = "weekly"
               /\ \E d \in 1..5 : dayOfWeek = d /\ titleIncludesDay(allQuests[q], d))
        uncompletedTodayQuests ==
            SelectSeq(todaysQuests, LAMBDA q : q \notin completedToday)
        todayComplete == todayCompleteOf(uncompletedTodayQuests, completedToday)
        missedWeeklyQuests == SelectSeq(catalog, LAMBDA q :
            /\ allQuests[q].category = "weekly"
            /\ q \notin completedToday
            /\ isMissed(allQuests[q], dayOfWeek))
        availableQuests == availableQuestsOf(completedToday)
    IN  IF Len(uncompletedTodayQuests) > 0
        THEN {Recommendation(sortedByScore(uncompletedTodayQuests, profile, t)[1],
                             FALSE, FALSE)}
        ELSE IF Len(missedWeeklyQuests) > 0
        THEN {Recommendation(missedWeeklyQuests[i], TRUE, todayComplete) :
                 i \in DOMAIN missedWeeklyQuests}
        ELSE IF Len(availableQuests) = 0
        THEN {Recommendation(catalog[i], FALSE, todayComplete) :
                 i \in DOMAIN catalog}
        ELSE {Recommendation(sortedByScore(availableQuests, profile, t)[1],
                             FALSE, todayComplete)}

\* The quests tab asks for the recommendation for the profile and the
\* completed quests it shows.
Recommend ==
    /\ ~state.isLoading
    /\ \E r \in getRecommendedQuestWithContext(state.userProfile,
                                                state.completedQuests, now) :
          lastCall' = [Returned("recommend", 0) EXCEPT
                          !.quest = r.quest,
                          !.isCatchUp = r.isCatchUp,
                          !.todayComplete = r.todayComplete]
    /\ UNCHANGED <<catalog, state, store, defaults, ledger, now, inflight, completions, faults>>

(* ------------------------------ helpers -------------------------------- *)

\* QuestCategory, and a category outside it.
Categories == {"daily", "weekly", "monthly", "seasonal", "speedClean",
               "deepClean", "declutter", "laundry", "pet", "other"}

\* PointsConfig.getPoints is applied to a category and a duration in minutes
\* (0: absent).
GetPoints ==
    /\ \E category \in Categories, duration \in 0..MaxDuration :
          lastCall' = [Returned("getPoints", getPoints(category, duration)) EXCEPT
                          !.args = <<category, duration>>]
    /\ UNCHANGED <<catalog, state, store, defaults, ledger, now, inflight, completions,
                   faults>>

\* getHomeSize is applied to a home with bedrooms and (half) bathrooms.
GetHomeSize ==
    /\ \E bedrooms \in 0..MaxHomeBedrooms, bathrooms \in 0..(2 * MaxHomeBathrooms) :
          lastCall' = [Returned("getHomeSize", 0) EXCEPT
                          !.args = <<bedrooms, bathrooms>>,
                          !.size = getHomeSize([defaultHomeConfig EXCEPT
                                                   !.bedrooms = bedrooms,
                                                   !.bathrooms = bathrooms])]
    /\ UNCHANGED <<catalog, state, store, defaults, ledger, now, inflight, completions,
                   faults>>

(* ------------------------- quest-detail screen ------------------------- *)
(* The screen's handlers are created at each render and close over that    *)
(* render's context value: the session functions they call test the state  *)
(* of that render, also when a timer calls them later.                     *)

\* The screen shows a step: there is an active quest and quest.steps[currentQuestStep]
\* is defined (the render reads currentStep.instruction).
Rendered(s) ==
    /\ ~s.isLoading
    /\ s.activeQuest # NoQuest
    /\ s.currentQuestStep < allQuests[s.activeQuest].steps

isLastStep(s) == s.currentQuestStep >= allQuests[s.activeQuest].steps - 1

\* isAnimating is set when the 750 ms timer is started and cleared when it fires.
isAnimating == \E i \in DOMAIN inflight : inflight[i].op = "handleNext"

\* 'Done, Next Step' / 'Complete Quest'.
HandleNext ==
    /\ Rendered(state)
    /\ ~isAnimating
    /\ IF isLastStep(state)
       THEN CompleteQuest(MaxInflight, MaxScreenCompletions)
       ELSE /\ Len(inflight) < MaxInflight
            /\ inflight' = Append(inflight, Frame("handleNext", "timer", state, NoLoc))
            /\ UNCHANGED <<catalog, state, store, defaults, ledger, now, lastCall,
                           completions, faults>>

\* The 750 ms timer of handleNext fires and calls the advanceQuestStep of the
\* render in which the button was pressed.
TimerFire(i) ==
    LET f == inflight[i] IN
    /\ f.op = "handleNext" /\ f.pc = "timer"
    /\ \E ok \in Oks : advanceQuestStep(f.cl, ok)
    /\ inflight' = DropFrame(i)
    /\ lastCall' = Returned("advanceQuestStep", 0)
    /\ UNCHANGED <<catalog, defaults, ledger, now, completions>>

\* 'Skip Step'.
HandleSkipStep ==
    /\ Rendered(state)
    /\ IF isLastStep(state)
       THEN HandleNext
       ELSE AdvanceQuestStep(MaxInflight)

\* 'Pause'.
HandlePause ==
    /\ Rendered(state)
    /\ PauseQuest(MaxInflight)

\* The close button and 'Exit Quest'.
HandleExit ==
    /\ Rendered(state)
    /\ SkipQuest(MaxInflight)

(* --------------------------- specifications ---------------------------- *)

InitWith(n) ==
    /\ state = initialState(defaultUserProfile)
    /\ store = [k \in KEYS |-> Null]
    /\ defaults = defaultUserProfile
    /\ ledger = << >>
    /\ now = StartDay * UnitsPerDay
    /\ inflight = << >>
    /\ lastCall = Returned("none", 0)
    /\ completions = 0
    /\ faults = n
    /\ catalog = catalogOrder

\* A step of a completeQuest() in flight.
ContinueComplete ==
    \E i \in DOMAIN inflight :
        \/ CompleteAddSession(i)
        \/ CompleteContribute(i)
        \/ CompleteUpdateStreak(i)
        \/ CompleteSaveProfile(i)
        \/ CompleteFinish(i)

\* A step of a pauseQuest() or resumeQuest() in flight.
ContinuePause ==
    \E i \in DOMAIN inflight :
        \/ PauseFinish(i)
        \/ ResumeFinish(i)

(* The session state machine: the app is opened once and the host calls   *)
(* the session API, one call at a time, while the clock runs.             *)
Init == InitWith(0)

Next ==
    \/ LoadData
    \/ TickShort
    \/ TickDay(MaxDay)
    \/ StartQuest(1, MaxCompletions)
    \/ AdvanceQuestStep(1)
    \/ CompleteQuest(1, MaxCompletions)
    \/ SkipQuest(1)
    \/ PauseQuest(1)
    \/ ResumeQuest(1)
    \/ DismissPausedQuest(1)
    \/ ContinueComplete
    \/ ContinuePause

Spec == Init /\ [][Next]_vars

(* The app over several days: quests are started and completed, the       *)
(* process is restarted and the data is reset.                            *)
NextDays ==
    \/ LoadData
    \/ Restart
    \/ ResetAllData(1)
    \/ TickDay(MaxStreakDay)
    \/ StartQuest(1, MaxStreakCompletions)
    \/ CompleteQuest(1, MaxStreakCompletions)
    \/ ContinueComplete

SpecDays == Init /\ [][NextDays]_vars

(* The same engine with AsyncStorage calls that may throw and a process   *)
(* that may be killed at an await.                                        *)
InitFault == InitWith(MaxFaults)

NextFault ==
    \/ LoadData
    \/ Crash
    \/ StartQuest(1, MaxFaultCompletions)
    \/ CompleteQuest(1, MaxFaultCompletions)
    \/ ContinueComplete

SpecFault == InitFault /\ [][NextFault]_vars

(* The profile: onboarding, the profile tab's editors and room-targeted   *)
(* quests, with restarts.  The root layout sends the user to onboarding    *)
(* until hasCompletedOnboarding is set, so the tabs are used after it.     *)
RoomQuestIds == {"deep", "mon"}

NextProfile ==
    \/ LoadData
    \/ Restart
    \/ Finish(1)
    \/ \E i \in DOMAIN inflight : FinishCompleteOnboarding(i)
    \/ state.hasCompletedOnboarding /\ HandleUpdateEnergy(1)
    \/ state.hasCompletedOnboarding /\ HandleUpdateHomeConfig(1)
    \/ state.hasCompletedOnboarding /\ HandleUpdateRoomName(1)
    \/ state.hasCompletedOnboarding
          /\ StartQuestOf(RoomQuestIds, 1, MaxProfileCompletions)
    \/ state.hasCompletedOnboarding /\ CompleteQuest(1, MaxProfileCompletions)
    \/ ContinueComplete

SpecProfile == Init /\ [][NextProfile]_vars

(* The recommendation engine applied to profiles, completion dates and     *)
(* clock readings drawn from the sets below.                               *)
RecommendDays == {StartDay - 1, StartDay, StartDay + 1, StartDay + 2, StartDay + 3}
\* The catalogs: one with daily routines, one with weekly quests only.
Catalogs == {<<"tidy", "deep", "night", "mon", "speed">>,
             <<"mon", "thu", "fri", "speed">>}
\* The completion maps of a catalog: each of its quests was never completed,
\* completed at this time yesterday, or completed just now.
CompletionMaps(cat, t) ==
    LET ids == {cat[i] : i \in DOMAIN cat} IN
    {[q \in CatalogIds |-> IF q \in ids THEN m[q] ELSE NoTime] :
        m \in [ids -> {NoTime, t - UnitsPerDay, t}]}
RecommendHours == {9, 13, 19}
RecommendEnergy == {"none", "low", "high"}
RecommendStruggles == {"none", "starting", "finishing", "deciding"}
\* Bedrooms and half bathrooms of a small, a medium and a large home.
RecommendHomes == {<<1, 2>>, <<2, 4>>, <<3, 4>>}

RecommendProfiles ==
    {[defaultUserProfile EXCEPT
        !.hasCompletedOnboarding = TRUE,
        !.energyLevel = energy,
        !.mainStruggle = struggle,
        !.homeConfig = [bedrooms |-> home[1], bathrooms |-> home[2], hasPets |-> FALSE,
                        namedRooms |-> generateDefaultNamedRooms(home[1], home[2], FALSE)]] :
        energy \in RecommendEnergy, struggle \in RecommendStruggles,
        home \in RecommendHomes}

InitRecommend ==
    /\ \E d \in RecommendDays, h \in RecommendHours :
          now = d * UnitsPerDay + h * 60 * UnitsPerMinute
    /\ catalog \in Catalogs
    /\ \E profile \in RecommendProfiles :
       \E completedQuests \in CompletionMaps(catalog, now) :
          /\ state = [RESET_ALL(defaultUserProfile) EXCEPT
                        !.userProfile = profile,
                        !.hasCompletedOnboarding = TRUE,
                        !.completedQuests = completedQuests]
          /\ store = [k \in KEYS |->
                        CASE k = "userProfile" -> Some(profile)
                          [] k = "completedQuests" -> Some(completedQuests)
                          [] OTHER -> Null]
    /\ defaults = defaultUserProfile
    /\ ledger = << >>
    /\ inflight = << >>
    /\ lastCall = Returned("none", 0)
    /\ completions = 0
    /\ faults = 0

NextRecommend == Recommend

SpecRecommend == InitRecommend /\ [][NextRecommend]_vars

(* 'Complete Quest' pressed again while a completion is in flight: the     *)
(* last step's branch of handleNext does not set isAnimating.              *)
PressComplete ==
    /\ Rendered(state)
    /\ ~isAnimating
    /\ isLastStep(state)
    /\ CompleteQuest(MaxInflight, MaxPressCompletions)

NextPress ==
    \/ LoadData
    \/ StartQuest(1, MaxPressCompletions)
    \/ AdvanceQuestStep(1)
    \/ PressComplete
    \/ ContinueComplete

SpecPress == Init /\ [][NextPress]_vars

(* The pure helpers of the domain model applied to arguments drawn from    *)
(* bounded sets.                                                           *)
NextHelpers ==
    \/ GetPoints
    \/ GetHomeSize

SpecHelpers == Init /\ [][NextHelpers]_vars

(* The quest-detail screen: the user presses its buttons while timers and  *)
(* handlers started by earlier presses are still pending.                  *)
NextScreen ==
    \/ LoadData
    \/ StartQuest(1, MaxScreenCompletions)
    \/ HandleNext
    \/ HandleSkipStep
    \/ HandleExit
    \/ HandlePause
    \/ ResumeQuest(1)
    \/ TickShort
    \/ ContinuePause
    \/ \E i \in DOMAIN inflight : TimerFire(i)
    \/ ContinueComplete

SpecScreen == Init /\ [][NextScreen]_vars

(* ------------------------------- claims -------------------------------- *)

Quiescent == inflight = << >> /\ ~state.isLoading

RECURSIVE SumPoints(_)
\* The points of the sessions of a history.
SumPoints(h) ==
    IF h = << >> THEN 0
    ELSE getPoints(allQuests[h[Len(h)].questId].category,
                   allQuests[h[Len(h)].questId].duration)
         + SumPoints(SubSeq(h, 1, Len(h) - 1))

RECURSIVE SumMinutes(_)
SumMinutes(h) ==
    IF h = << >> THEN 0
    ELSE h[Len(h)].actualMinutes + SumMinutes(SubSeq(h, 1, Len(h) - 1))

PersistedProfile == loadUserProfile(store, defaultUserProfile, TRUE)
PersistedHistory == loadCleaningHistory(store, TRUE)
PersistedCompleted == loadCompletedQuests(store, TRUE)

\* lastCall reports a completeQuest() that passed its guard.
Completed == lastCall.op = "completeQuest" /\ lastCall.before # NoSession

\* C1: at most one of the active session and the in-memory paused task is
\* non-null, in every reachable state of the session state machine.
C1_ActiveOrPausedNotBoth ==
    ~(state.activeQuest # NoQuest /\ ~IsNull(state.pausedQuest))

\* C2: whenever no handler is running (also after a failed write or a kill
\* inside completeQuest), the persisted profile holds the points and counts
\* of exactly the completions recorded in the persisted history, and every
\* recorded completion is in the persisted completed-quests map.
C2_PersistedConsistent ==
    inflight = << >> =>
        /\ PersistedProfile.questsCompleted = Len(PersistedHistory)
        /\ PersistedProfile.totalPoints = SumPoints(PersistedHistory)
        /\ \A i \in 1..Len(PersistedHistory) :
              PersistedCompleted[PersistedHistory[i].questId] # NoTime

\* C3: when completeQuest() has returned, the completion is in the persisted
\* completed-quests map and history (no write having failed), and if its
\* profile write failed the progress checkpoint is still present.
C3_CheckpointKeptUnlessProfileSaved ==
    Completed =>
        /\ faults = MaxFaults =>
              /\ PersistedCompleted[Val(lastCall.before).quest] # NoTime
              /\ PersistedHistory # << >>
        /\ ~lastCall.profileSaved => ~IsNull(store["questProgress"])

\* C8: whenever a session is active its step index is between 0 and
\* steps.length - 1, also when the delayed advance of 'Done, Next Step'
\* interleaves with 'Skip Step'.
C8_StepIndexInRange ==
    state.activeQuest # NoQuest =>
        /\ 0 <= state.currentQuestStep
        /\ state.currentQuestStep <= allQuests[state.activeQuest].steps - 1

\* The points of the sessions of h completed in the week of instant t.
PointsInWeekOf(h, t) ==
    SumPoints(SelectSeq(h, LAMBDA e : currentWeekStart(e.completedAt) = currentWeekStart(t)))

\* C10: after a completion, weeklyPoints holds the points of the completions
\* of that completion's Monday-aligned week only: points earned in an earlier
\* week have been reset, also when the process ran across Monday 00:00.
C10_WeeklyPointsOfThisWeekOnly ==
    (Completed /\ inflight = << >>) =>
        state.userProfile.weeklyPoints =
            PointsInWeekOf(state.cleaningHistory,
                           state.cleaningHistory[Len(state.cleaningHistory)].completedAt)

Last(h) == h[Len(h)]
Front(h) == SubSeq(h, 1, Len(h) - 1)

\* C4: with community access after the update, completeQuest() requests a
\* contribution of exactly the earned points, and whether the request is
\* delivered or fails the call ends the same way: the session is over, the
\* checkpoint is cleared, the earned points are returned, the streak is
\* updated, and the profile in memory and in storage counts every session
\* of the history.
C4_LedgerDecoupled ==
    /\ (Completed /\ inflight = << >> /\ state.userProfile.hasCommunityAccess)
          => lastCall.ledger # "none"
    /\ (Completed /\ inflight = << >> /\ lastCall.ledger # "none") =>
          /\ ledger # << >>
          /\ Last(ledger).amount = lastCall.ret
          /\ Last(ledger).delivered = (lastCall.ledger = "ok")
          /\ lastCall.ret = getPoints(allQuests[Val(lastCall.before).quest].category,
                                      allQuests[Val(lastCall.before).quest].duration)
          /\ state.lastEarnedPoints = lastCall.ret
          /\ state.activeQuest = NoQuest
          /\ IsNull(store["questProgress"])
    /\ (inflight = << >> /\ ledger # << >>) =>
          /\ state.userProfile.questsCompleted = Len(state.cleaningHistory)
          /\ state.userProfile.totalPoints = SumPoints(state.cleaningHistory)
          /\ state.userProfile.totalMinutesCleaned = SumMinutes(state.cleaningHistory)
          /\ state.userProfile.currentStreak >= 1
          /\ store["userProfile"] = Some(state.userProfile)
          /\ PersistedHistory = state.cleaningHistory
          /\ PersistedCompleted = state.completedQuests
          /\ ~IsNull(store["lastActiveDate"])
          /\ DayOf(Val(store["lastActiveDate"])) = DayOf(Last(state.cleaningHistory).completedAt)

\* A completeQuest() whose contribution request failed has returned.
C4_Witness ==
    /\ Completed
    /\ inflight = << >>
    /\ lastCall.ledger = "failed"
    /\ state.userProfile.hasCommunityAccess
    /\ state.userProfile.totalPoints = lastCall.ret

\* C5: the step in which completeQuest() returns leaves, relative to the
\* state the call started from: the quest's completion date set to the
\* completion instant, exactly one more history entry (actualMinutes >= 1),
\* questsCompleted + 1, totalMinutesCleaned + actualMinutes, totalPoints and
\* weeklyPoints + getPoints(category, duration), no active session, and that
\* point value returned; storage holds the same.
C5_Step ==
    (Len(inflight) = 1 /\ inflight' = << >>
     /\ inflight[1].op = "completeQuest" /\ inflight[1].pc = "clearQuestProgress") =>
        LET f == inflight[1]
            q == f.cl.activeQuest
            pre == f.cl.userProfile
            post == state'.userProfile
            h == state'.cleaningHistory
            earned == getPoints(allQuests[q].category, allQuests[q].duration)
        IN  /\ f.loc.t = now
            /\ state'.completedQuests[q] = now
            /\ loadCompletedQuests(store', TRUE)[q] = now
            /\ Len(h) = Len(f.cl.cleaningHistory) + 1
            /\ Front(h) = f.cl.cleaningHistory
            /\ Last(h).questId = q
            /\ Last(h).completedAt = now
            /\ Last(h).actualMinutes >= 1
            /\ loadCleaningHistory(store', TRUE) = h
            /\ post.questsCompleted = pre.questsCompleted + 1
            /\ post.totalMinutesCleaned = pre.totalMinutesCleaned + Last(h).actualMinutes
            /\ post.totalPoints = pre.totalPoints + earned
            /\ post.weeklyPoints = pre.weeklyPoints + earned
            /\ store'["userProfile"] = Some(post)
            /\ state'.activeQuest = NoQuest
            /\ lastCall'.op = "completeQuest"
            /\ lastCall'.ret = earned

C5_CompleteRoundTrip == [][C5_Step]_vars

\* A two-step quest was advanced through its steps and completed after a
\* minute and a half: two minutes are recorded.
C5_Witness ==
    /\ Completed
    /\ Val(lastCall.before).stepIndex = 1
    /\ state.cleaningHistory # << >>
    /\ Last(state.cleaningHistory).actualMinutes = 2
    /\ state.userProfile.totalMinutesCleaned = 2
    /\ state.userProfile.questsCompleted = 1

\* C6, in the state: after pauseQuest() and then resumeQuest() with no call
\* in between, the session has the task, step index, room and task-start
\* instant it had when paused, and there is no paused task; a completion
\* measures actualMinutes from the task-start instant of its session.
C6_State ==
    /\ (lastCall.op = "resumeQuest" /\ lastCall.before # NoSession) =>
          LET b == Val(lastCall.before) IN
          /\ state.activeQuest = b.quest
          /\ state.currentQuestStep = b.stepIndex
          /\ state.activeRoomId = b.roomId
          /\ state.questStartTime = b.questStartTime
          /\ IsNull(state.pausedQuest)
    /\ (Completed /\ state.cleaningHistory # << >>) =>
          Last(state.cleaningHistory).actualMinutes =
              Max(1, MathRound(Last(state.cleaningHistory).completedAt
                                 - Val(lastCall.before).questStartTime, UnitsPerMinute))

\* C6, in the step: the resume sets the step-start instant to the instant of
\* the resume.
C6_Step ==
    (Len(inflight') = Len(inflight) + 1 /\ Last(inflight').op = "resumeQuest") =>
        /\ state'.stepStartTime = now
        /\ state'.activeQuest # NoQuest

\* C6: pause then resume restores the session and keeps the original
\* task-start instant.
C6_PauseResume == [](C6_State) /\ [][C6_Step]_vars

\* A session paused at its second step was resumed after time had passed
\* since the task started.
C6_Witness ==
    /\ lastCall.op = "resumeQuest"
    /\ lastCall.before # NoSession
    /\ state.currentQuestStep = 1
    /\ state.stepStartTime > state.questStartTime
    /\ DayOf(state.stepStartTime) > DayOf(state.questStartTime)

\* A call of op that returned in this step without awaiting anything.
ReturnsAtOnce(op) ==
    /\ inflight' = inflight
    /\ lastCall' # lastCall
    /\ lastCall'.op = op

\* advanceQuestStep() is called in this step, by the host or by the timer of
\* 'Done, Next Step'.
AdvanceCalled ==
    \/ ReturnsAtOnce("advanceQuestStep")
    \/ \E i \in DOMAIN inflight :
          /\ inflight[i].op = "handleNext"
          /\ inflight' = DropFrame(i)

\* C7: a call made in a state that does not allow it (advanceQuestStep at
\* the last step or with no session, completeQuest and pauseQuest with no
\* session, resumeQuest with no paused task) changes neither the state nor
\* storage, and such a completeQuest returns 0.
C7_Step ==
    /\ (AdvanceCalled
        /\ (state.activeQuest = NoQuest
            \/ state.currentQuestStep >= allQuests[state.activeQuest].steps - 1))
          => UNCHANGED <<state, store>>
    /\ (ReturnsAtOnce("completeQuest") /\ state.activeQuest = NoQuest)
          => (UNCHANGED <<state, store>> /\ lastCall'.ret = 0)
    /\ (ReturnsAtOnce("pauseQuest") /\ state.activeQuest = NoQuest)
          => UNCHANGED <<state, store>>
    /\ (ReturnsAtOnce("resumeQuest") /\ IsNull(state.pausedQuest))
          => UNCHANGED <<state, store>>

C7_InvalidTransitionsAreNoOps == [][C7_Step]_vars

NoDay == NoTime

RECURSIVE StreakOf(_)
\* The streak rule applied to the completion days of a history, in order.
StreakOf(h) ==
    IF h = << >> THEN [current |-> 0, longest |-> 0, lastActive |-> NoDay]
    ELSE LET p == StreakOf(Front(h))
             today == DayOf(Last(h).completedAt)
         IN  IF p.lastActive # NoDay /\ p.lastActive = today - 1
             THEN [current |-> p.current + 1,
                   longest |-> Max(p.longest, p.current + 1),
                   lastActive |-> today]
             ELSE IF p.lastActive = today
             THEN p
             ELSE [current |-> 1, longest |-> p.longest, lastActive |-> today]

\* C9: between calls, the profile's streak is what the rule gives when it is
\* applied once per completion of the history (yesterday: +1 and longest =
\* max; today: unchanged; otherwise: 1), and the last-active date is the day
\* of the last completion.
C9_StreakRule ==
    Quiescent =>
        LET s == StreakOf(state.cleaningHistory) IN
        /\ state.userProfile.currentStreak = s.current
        /\ state.userProfile.longestStreak = s.longest
        /\ PersistedProfile.currentStreak = s.current
        /\ PersistedProfile.longestStreak = s.longest
        /\ IF s.lastActive = NoDay THEN IsNull(store["lastActiveDate"])
           ELSE /\ ~IsNull(store["lastActiveDate"])
                /\ DayOf(Val(store["lastActiveDate"])) = s.lastActive

\* Three completions on three consecutive days from a fresh profile.
C9_Witness ==
    /\ Quiescent
    /\ Len(state.cleaningHistory) = 3
    /\ \A i \in 1..2 : DayOf(state.cleaningHistory[i + 1].completedAt)
                         = DayOf(state.cleaningHistory[i].completedAt) + 1
    /\ state.userProfile.currentStreak = 3
    /\ state.userProfile.longestStreak = 3

\* Monday 00:00 of the week an instant lies in: the last midnight up to the
\* instant that begins a Monday.
MondayOf(t) ==
    (CHOOSE d \in (DayOf(t) - 6)..DayOf(t) : getDay(d * UnitsPerDay) = 1) * UnitsPerDay

\* C11: loadData's weekly reset, on the profile read from storage: when no
\* reset date is recorded or it is earlier than this week's Monday 00:00,
\* weeklyPoints becomes 0, the reset date that Monday and
\* isCommunityAccessActive false; otherwise the three fields are kept and a
\* profile dated this Monday is returned as it is; applying the reset twice
\* gives what applying it once gives; totalPoints, hasCommunityAccess and
\* the streak fields are those of the profile read.
C11_Step ==
    (state.isLoading /\ ~state'.isLoading) =>
        LET p == loadUserProfile(store, defaults, TRUE)
            r == state'.userProfile
            monday == MondayOf(now)
            due == p.weeklyPointsResetDate = NoTime \/ p.weeklyPointsResetDate < monday
        IN  /\ IF due
               THEN /\ r.weeklyPoints = 0
                    /\ r.weeklyPointsResetDate = monday
                    /\ ~r.isCommunityAccessActive
               ELSE /\ r.weeklyPoints = p.weeklyPoints
                    /\ r.weeklyPointsResetDate = p.weeklyPointsResetDate
                    /\ r.isCommunityAccessActive = p.isCommunityAccessActive
            /\ p.weeklyPointsResetDate = monday => checkWeeklyReset(p, now) = p
            /\ checkWeeklyReset(checkWeeklyReset(p, now), now) = checkWeeklyReset(p, now)
            /\ r.totalPoints = p.totalPoints
            /\ r.hasCommunityAccess = p.hasCommunityAccess
            /\ r.currentStreak = p.currentStreak
            /\ r.longestStreak = p.longestStreak
            /\ store'["userProfile"] = Some(r)

C11_WeeklyResetAtLoad == [][C11_Step]_vars

\* A profile that earned community access last week was loaded on Monday.
C11_Witness ==
    /\ lastCall.op = "loadData"
    /\ ~state.isLoading
    /\ getDay(now) = 1
    /\ state.userProfile.totalPoints >= communityUnlockThreshold
    /\ state.userProfile.hasCommunityAccess
    /\ ~state.userProfile.isCommunityAccessActive
    /\ state.userProfile.weeklyPoints = 0
    /\ state.userProfile.weeklyPointsResetDate = now

RECURSIVE UnlockIndex(_)
\* The first completion of a history after which the points sum to the
\* unlock threshold (0: none).
UnlockIndex(h) ==
    IF h = << >> THEN 0
    ELSE IF UnlockIndex(Front(h)) # 0 THEN UnlockIndex(Front(h))
    ELSE IF SumPoints(h) >= communityUnlockThreshold THEN Len(h)
    ELSE 0

\* C12, in the state: between calls hasCommunityAccess holds exactly when
\* some completion of the history brought the points to 300, and
\* communityUnlockDate is the instant of the first such completion, in
\* memory and in storage.
C12_State ==
    Quiescent =>
        LET h == state.cleaningHistory
            k == UnlockIndex(h)
        IN  \A p \in {state.userProfile, PersistedProfile} :
              IF k = 0
              THEN ~p.hasCommunityAccess /\ p.communityUnlockDate = NoTime
              ELSE p.hasCommunityAccess /\ p.communityUnlockDate = h[k].completedAt

\* C12, in the step: short of a full reset, access once given stays and the
\* unlock date is not written again.
C12_Step ==
    (PersistedProfile.hasCommunityAccess /\ lastCall'.op # "resetAllData") =>
        /\ PersistedProfile'.hasCommunityAccess
        /\ PersistedProfile'.communityUnlockDate = PersistedProfile.communityUnlockDate

\* C12: hasCommunityAccess is given once, at the first completion that
\* brings totalPoints to 300, and is kept with its date until a full reset.
C12_UnlockOnce == [](C12_State) /\ [][C12_Step]_vars

\* Access was given by the second of three completions, the third made on a
\* later day.
C12_Witness ==
    /\ Quiescent
    /\ Len(state.cleaningHistory) = 3
    /\ UnlockIndex(state.cleaningHistory) = 2
    /\ state.userProfile.hasCommunityAccess
    /\ state.cleaningHistory[3].completedAt > state.userProfile.communityUnlockDate

\* C13: isCommunityAccessActive holds only with hasCommunityAccess and
\* weeklyPoints >= 100, in memory and in storage, and a completeQuest that
\* ends with hasCommunityAccess and weeklyPoints >= 100 ends with it set.
C13_CommunityAccessActive ==
    /\ \A p \in {state.userProfile, PersistedProfile} :
          p.isCommunityAccessActive =>
              (p.hasCommunityAccess /\ p.weeklyPoints >= weeklyMinimumForAccess)
    /\ (Completed /\ inflight = << >>
        /\ state.userProfile.hasCommunityAccess
        /\ state.userProfile.weeklyPoints >= weeklyMinimumForAccess)
          => state.userProfile.isCommunityAccessActive

\* Access lapsed at Monday's load and was earned again by a completion.
C13_Witness ==
    /\ Completed
    /\ inflight = << >>
    /\ state.userProfile.isCommunityAccessActive
    /\ state.userProfile.weeklyPointsResetDate = MondayOf(now)
    /\ state.userProfile.weeklyPoints < state.userProfile.totalPoints
    /\ state.userProfile.weeklyPoints =
          PointsInWeekOf(state.cleaningHistory, now)

(* ------------------------------ rooms ---------------------------------- *)

ConfigCounts(cfg) == <<cfg.bedrooms, cfg.bathrooms, cfg.hasPets>>

\* C14: a home-configuration edit that changes the bedroom count, the
\* bathroom count or has-pets keeps every room that existed before it: the
\* room list after the edit still has a room with the same id, name,
\* lastCleaned and lastDeepCleaned.
C14_Step ==
    (/\ lastCall'.op = "handleUpdateHomeConfig"
     /\ inflight' = inflight
     /\ ~state.isLoading /\ ~state'.isLoading
     /\ ConfigCounts(state'.userProfile.homeConfig)
            # ConfigCounts(state.userProfile.homeConfig)) =>
        LET before == state.userProfile.homeConfig.namedRooms
            after == state'.userProfile.homeConfig.namedRooms
        IN  \A i \in DOMAIN before : \E j \in DOMAIN after : after[j] = before[i]

C14_RoomsKeptOnConfigChange == [][C14_Step]_vars

TypesOf(rooms) == {rooms[i].type : i \in DOMAIN rooms}

ImpliedTypes(cfg) ==
    {"kitchen", "livingRoom", "entryway"}
        \cup (IF cfg.bedrooms > 0 THEN {"bedroom"} ELSE {})
        \cup (IF cfg.bathrooms > 0 THEN {"bathroom"} ELSE {})
        \cup (IF cfg.hasPets THEN {"petArea"} ELSE {})

CoversImpliedTypes(profile) ==
    ImpliedTypes(profile.homeConfig) \subseteq TypesOf(profile.homeConfig.namedRooms)

\* C15: once the data is loaded, the room types of the profile in memory,
\* and of the profile in storage, include every type its configuration
\* implies: kitchen, livingRoom and entryway, bedroom with a positive bedroom
\* count, bathroom with a positive bathroom count, petArea with pets.
C15_RoomTypesCoverConfig ==
    ~state.isLoading =>
        /\ CoversImpliedTypes(state.userProfile)
        /\ ~IsNull(store["userProfile"]) => CoversImpliedTypes(Val(store["userProfile"]))

\* The home editor was set to pets in a two-bedroom home without bathrooms.
C15_Witness ==
    /\ lastCall.op = "handleUpdateHomeConfig"
    /\ state.userProfile.homeConfig.hasPets
    /\ state.userProfile.homeConfig.bedrooms = 2
    /\ state.userProfile.homeConfig.bathrooms = 0
    /\ TypesOf(state.userProfile.homeConfig.namedRooms)
          = {"kitchen", "livingRoom", "entryway", "bedroom", "petArea"}

\* C16: the step in which completeQuest() returns leaves, relative to the
\* rooms the call started from: the room with the targeted id stamped with
\* lastCleaned = the completion instant, and with lastDeepCleaned = that
\* instant exactly when the quest's category is deepClean; every other room
\* and every other field as it was; nothing changed without a targeted id.
\* Storage holds the same rooms.
C16_Step ==
    (Len(inflight) = 1 /\ inflight' = << >>
     /\ inflight[1].op = "completeQuest" /\ inflight[1].pc = "clearQuestProgress") =>
        LET f == inflight[1]
            before == f.cl.userProfile.homeConfig.namedRooms
            after == state'.userProfile.homeConfig.namedRooms
            isDeepClean == allQuests[f.cl.activeQuest].category = "deepClean"
        IN  /\ DOMAIN after = DOMAIN before
            /\ \A i \in DOMAIN before :
                  IF f.cl.activeRoomId # NoRoom /\ before[i].id = f.cl.activeRoomId
                  THEN /\ after[i].lastCleaned = now
                       /\ after[i].lastDeepCleaned =
                             (IF isDeepClean THEN now ELSE before[i].lastDeepCleaned)
                       /\ after[i].id = before[i].id
                       /\ after[i].type = before[i].type
                       /\ after[i].name = before[i].name
                  ELSE after[i] = before[i]
            /\ ~IsNull(store'["userProfile"])
            /\ Val(store'["userProfile"]).homeConfig.namedRooms = after

C16_RoomStamps == [][C16_Step]_vars

\* The weekly bathroom quest was completed for a renamed home's bathroom: the
\* room is stamped cleaned and not deep-cleaned.
C16_Witness ==
    /\ lastCall.op = "completeQuest"
    /\ inflight = << >>
    /\ state.cleaningHistory # << >>
    /\ Last(state.cleaningHistory).questId = "mon"
    /\ \E i \in DOMAIN state.userProfile.homeConfig.namedRooms :
          LET r == state.userProfile.homeConfig.namedRooms[i] IN
          /\ r.type = "bathroom"
          /\ r.lastCleaned = now
          /\ r.lastDeepCleaned = NoTime


(* ----------------------------- history -------------------------------- *)

IsPrefix(a, b) == Len(a) <= Len(b) /\ \A i \in DOMAIN a : b[i] = a[i]

\* C17: the cleaning history is append-only: in every step other than a full
\* reset, including the steps of a completeQuest() in which a read or write
\* of storage fails, the history persisted before the step is a prefix of
\* the history persisted after it.
C17_Step ==
    ~(lastCall'.op = "resetAllData" /\ lastCall' # lastCall) =>
        IsPrefix(PersistedHistory, PersistedHistory')

C17_HistoryAppendOnly == [][C17_Step]_vars

(* ------------------------------ reset ---------------------------------- *)

ResetKeys == {"userProfile", "completedQuests", "questProgress",
              "lastActiveDate", "cleaningHistory", "accountCreated"}

\* Every contribution was made under the same anonymous id.
C18_State ==
    \A i \in DOMAIN ledger, j \in DOMAIN ledger : ledger[i].oderId = ledger[j].oderId

\* The step of a full reset: the six reset keys are removed, the anonymous id
\* in storage is the one from before, and the state in memory has its
\* initial values: no active session, no paused quest, nothing completed, an
\* empty history, and the defaultUserProfile object, which differs from its
\* literal only in what a load of an empty storage assigned to it: the week's
\* reset date and the default room list.
C18_Step ==
    (lastCall'.op = "resetAllData" /\ lastCall' # lastCall) =>
        /\ \A k \in ResetKeys : IsNull(store'[k])
        /\ store'["anonymousId"] = store["anonymousId"]
        /\ state'.activeQuest = NoQuest
        /\ state'.activeRoomId = NoRoom
        /\ state'.currentQuestStep = 0
        /\ state'.questStartTime = NoTime
        /\ IsNull(state'.pausedQuest)
        /\ state'.completedQuests = EmptyCompleted
        /\ state'.cleaningHistory = << >>
        /\ ~state'.hasCompletedOnboarding
        /\ state'.userProfile = defaults
        /\ state'.userProfile =
              [defaultUserProfile EXCEPT
                 !.weeklyPointsResetDate = state'.userProfile.weeklyPointsResetDate,
                 !.homeConfig.namedRooms = state'.userProfile.homeConfig.namedRooms]
        /\ state'.userProfile.weeklyPointsResetDate \in {NoTime} \cup
              {MondayOf(d * UnitsPerDay) : d \in StartDay..DayOf(now)}
        /\ state'.userProfile.homeConfig.namedRooms
              \in {<< >>, generateDefaultNamedRooms(defaultHomeConfig.bedrooms,
                              defaultHomeConfig.bathrooms, defaultHomeConfig.hasPets)}

C19_PersistedProfileEqualsMemory ==
    (~state.isLoading /\ inflight = << >>) =>
        store["userProfile"] = Some(state.userProfile)

(* --------------------------- recommendations --------------------------- *)

\* Today's ideal set: the daily quests and the weekly quests whose title
\* names today's weekday, Monday to Friday.
IdealToday(t) ==
    {q \in {catalog[i] : i \in DOMAIN catalog} :
        \/ allQuests[q].category = "daily"
        \/ /\ allQuests[q].category = "weekly"
           /\ getDay(t) \in 1..5
           /\ allQuests[q].weekday = getDay(t)}

CatalogIndex(q) == CHOOSE i \in DOMAIN catalog : catalog[i] = q

\* C20: when a quest of today's ideal set is not completed today, the
\* recommendation is not a catch-up and is an incomplete member of the set
\* of maximal score, the first in catalog order among those of that score;
\* the engine has one possible result, so repeated calls return the same.
C20_TodaysQuestRecommended ==
    LET profile == state.userProfile
        open == {q \in IdealToday(now) :
                    ~isQuestCompletedToday(q, state.completedQuests, now)}
        score(q) == calculateScore(allQuests[q], profile, now)
    IN  (lastCall.op = "recommend" /\ open # {}) =>
            /\ ~lastCall.isCatchUp
            /\ lastCall.quest \in open
            /\ \A q \in open : score(q) <= score(lastCall.quest)
            /\ \A q \in open : score(q) = score(lastCall.quest) =>
                                    CatalogIndex(lastCall.quest) <= CatalogIndex(q)
            /\ Cardinality(getRecommendedQuestWithContext(
                               profile, state.completedQuests, now)) = 1

\* In the evening the night reset outscores the morning tidy, which is
\* still open and comes first in the catalog.
C20_Witness ==
    /\ lastCall.op = "recommend"
    /\ lastCall.quest = "night"
    /\ ~lastCall.isCatchUp
    /\ ~isQuestCompletedToday("tidy", state.completedQuests, now)
    /\ getHours(now) >= 17

\* The quests of the catalog, those completed today, those of today's ideal
\* set still open, and the weekly quests missed earlier this week.
CatalogQuests == {catalog[i] : i \in DOMAIN catalog}
DoneToday == {q \in CatalogQuests : isQuestCompletedToday(q, state.completedQuests, now)}
OpenToday == IdealToday(now) \ DoneToday
MissedThisWeek ==
    {q \in CatalogQuests \ DoneToday :
        /\ allQuests[q].category = "weekly"
        /\ allQuests[q].weekday \in 1..4
        /\ allQuests[q].weekday < getDay(now)}

\* C21: the todayComplete flag of a recommendation is true exactly when
\* every quest of today's ideal set has been completed today and at least
\* one quest has been completed today; with an empty ideal set and no
\* completion today it is false.
C21_TodayCompleteFlag ==
    lastCall.op = "recommend" =>
        (lastCall.todayComplete <=> (OpenToday = {} /\ DoneToday # {}))

\* With an empty ideal set and no completion today the flag is false.
C21_Witness ==
    /\ lastCall.op = "recommend"
    /\ IdealToday(now) = {}
    /\ DoneToday = {}
    /\ ~lastCall.todayComplete

\* C22: a recommendation is a catch-up only when today's ideal set is fully
\* completed, and then it is a weekly quest not completed today whose title
\* names a day from Monday to Thursday earlier in the week than today;
\* whenever such a quest exists and the ideal set is done, the
\* recommendation is one of them, as a catch-up; there is no catch-up on a
\* Sunday or a Monday.
C22_CatchUp ==
    lastCall.op = "recommend" =>
        /\ lastCall.isCatchUp => (OpenToday = {} /\ lastCall.quest \in MissedThisWeek)
        /\ (OpenToday = {} /\ MissedThisWeek # {}) =>
                (lastCall.isCatchUp /\ lastCall.quest \in MissedThisWeek)
        /\ lastCall.isCatchUp => getDay(now) \notin {0, 1}

\* On a Saturday Thursday's quest is the catch-up while Friday's quest is
\* not completed either.
C22_Witness ==
    /\ lastCall.op = "recommend"
    /\ lastCall.isCatchUp
    /\ lastCall.quest = "thu"
    /\ getDay(now) = 6
    /\ "fri" \in CatalogQuests \ DoneToday

\* C23: on the fallback path (ideal set done, no missed weekly quest) the
\* recommendation is not a catch-up and is a quest of maximal score among
\* those not completed today; on every path a quest completed today is
\* returned only when every quest of the catalog was completed today.
C23_Fallback ==
    LET score(q) == calculateScore(allQuests[q], state.userProfile, now)
        available == CatalogQuests \ DoneToday
    IN  lastCall.op = "recommend" =>
            /\ (OpenToday = {} /\ MissedThisWeek = {}) =>
                  /\ ~lastCall.isCatchUp
                  /\ lastCall.quest \in CatalogQuests
                  /\ available # {} =>
                        /\ lastCall.quest \in available
                        /\ \A q \in available : score(q) <= score(lastCall.quest)
            /\ lastCall.quest \in DoneToday => DoneToday = CatalogQuests

\* On a Sunday with the daily routines done, Monday's weekly quest outscores
\* the deep clean, which comes before it in the catalog.
C23_Witness ==
    /\ lastCall.op = "recommend"
    /\ ~lastCall.isCatchUp
    /\ lastCall.quest = "mon"
    /\ getDay(now) = 0
    /\ {"tidy", "night"} \subseteq DoneToday
    /\ "deep" \notin DoneToday

(* ------------------------------ helpers -------------------------------- *)

\* C24: getHomeSize maps (bedrooms, bathrooms) = (0,1) and (1,1) to small,
\* (2,2) to medium, (3,3) to large, (2,1) to medium and (0,2) to medium
\* (bathrooms in half bathrooms here).
C24_HomeSizeTable ==
    lastCall.op = "getHomeSize" =>
        /\ lastCall.args = <<0, 2>> => lastCall.size = "small"
        /\ lastCall.args = <<1, 2>> => lastCall.size = "small"
        /\ lastCall.args = <<2, 4>> => lastCall.size = "medium"
        /\ lastCall.args = <<3, 6>> => lastCall.size = "large"
        /\ lastCall.args = <<2, 2>> => lastCall.size = "medium"
        /\ lastCall.args = <<0, 4>> => lastCall.size = "medium"

\* The value of the point table the claim states.
TablePoints(category, duration) ==
    CASE category = "daily" -> 100
      [] category \in {"weekly", "laundry", "pet"} -> 150
      [] category \in {"monthly", "seasonal"} -> 250
      [] category = "deepClean" -> 300
      [] category = "declutter" -> 200
      [] category = "speedClean" ->
            IF 100 + (duration \div 5) * 10 < 200
            THEN 100 + (duration \div 5) * 10 ELSE 200
      [] OTHER -> 100

C25_State ==
    lastCall.op = "getPoints" =>
        /\ lastCall.ret \in 100..300
        /\ lastCall.ret = TablePoints(lastCall.args[1], lastCall.args[2])
        /\ lastCall.args[1] = "speedClean" =>
              /\ lastCall.ret <= 200
              /\ lastCall.args[2] = 0 => lastCall.ret = 100

\* From one speedClean call to the next with a duration at least as long,
\* the points do not decrease.
C25_Step ==
    (/\ lastCall.op = "getPoints" /\ lastCall'.op = "getPoints"
     /\ lastCall.args[1] = "speedClean" /\ lastCall'.args[1] = "speedClean"
     /\ lastCall.args[2] <= lastCall'.args[2]) => lastCall.ret <= lastCall'.ret

C26_Step ==
    (ReturnsAtOnce("skipQuest") /\ state.activeQuest # NoQuest) =>
        /\ state'.activeQuest = NoQuest
        /\ state'.activeRoomId = NoRoom
        /\ state'.currentQuestStep = 0
        /\ state'.questStartTime = NoTime
        /\ IsNull(store'["questProgress"])
        /\ state'.completedQuests = state.completedQuests
        /\ state'.cleaningHistory = state.cleaningHistory
        /\ state'.userProfile = state.userProfile
        /\ state'.pausedQuest = state.pausedQuest
        /\ \A k \in KEYS \ {"questProgress"} : store'[k] = store[k]
        /\ ledger' = ledger

C26_SkipFrame == [][C26_Step]_vars

\* A session started while another quest was paused has been skipped: the
\* paused quest is kept, in memory and in storage, and no checkpoint is left.
C26_Witness ==
    /\ lastCall.op = "skipQuest"
    /\ lastCall.before # NoSession
    /\ state.activeQuest = NoQuest
    /\ ~IsNull(state.pausedQuest)
    /\ ~IsNull(store["pausedQuest"])
    /\ IsNull(store["questProgress"])

(* ------------------------------- streak -------------------------------- *)

\* C27: in every state reached from a fresh profile by completions on any
\* days, longestStreak >= currentStreak, in memory and in storage.
C27_LongestAtLeastCurrent ==
    /\ state.userProfile.longestStreak >= state.userProfile.currentStreak
    /\ ~IsNull(store["userProfile"]) =>
          PersistedProfile.longestStreak >= PersistedProfile.currentStreak

(* ----------------------------- checkpoint ------------------------------ *)

\* C28: between operations, once the data is loaded, the persisted progress
\* checkpoint exists exactly when a session is active, and then its questId
\* and currentStepIndex are the active quest's id and the step index in
\* memory.
C28_CheckpointMatchesSession ==
    Quiescent =>
        /\ ~IsNull(store["questProgress"]) <=> state.activeQuest # NoQuest
        /\ state.activeQuest # NoQuest =>
              /\ Val(store["questProgress"]).questId = state.activeQuest
              /\ Val(store["questProgress"]).currentStepIndex = state.currentQuestStep

(* ------------------------- repeated completion ------------------------- *)

\* C29: between operations, questsCompleted equals the number of history
\* entries and totalMinutesCleaned the sum of their actualMinutes, also when
\* completeQuest() was invoked a second time for the same session before
\* the first invocation had finished.
C29_StatsMatchHistory ==
    Quiescent =>
        /\ state.userProfile.questsCompleted = Len(state.cleaningHistory)
        /\ state.userProfile.totalMinutesCleaned = SumMinutes(state.cleaningHistory)

(* ------------------------ pause and resume order ----------------------- *)

HasPausedRecord(st) == ~IsNull(st["pausedQuest"])
HasCheckpoint(st) == ~IsNull(st["questProgress"])

\* While pauseQuest() or resumeQuest() is suspended at an await, the paused
\* record or the checkpoint is in storage.
C30_State ==
    \A i \in DOMAIN inflight :
        inflight[i].op \in {"pauseQuest", "resumeQuest"} =>
            (HasPausedRecord(store) \/ HasCheckpoint(store))

\* pauseQuest() clears the checkpoint with the paused record written, and
\* resumeQuest() clears the paused record with the checkpoint written.
C30_Step ==
    \A i \in DOMAIN inflight :
        inflight' = DropFrame(i) =>
            /\ inflight[i].op = "pauseQuest" =>
                  (HasPausedRecord(store) /\ HasPausedRecord(store'))
            /\ inflight[i].op = "resumeQuest" =>
                  (HasCheckpoint(store) /\ HasCheckpoint(store'))

\* C30: at every point at which the process can be interrupted inside
\* pauseQuest() or resumeQuest(), the persisted paused record or the
\* persisted checkpoint exists: pause writes the paused record before it
\* clears the checkpoint, resume writes the checkpoint before it clears the
\* paused record.
C30_NeverLosesBoth == [](C30_State) /\ [][C30_Step]_vars

\* resumeQuest() is suspended at clearPausedQuest: the checkpoint is written
\* and the paused record is still there.
C30_Witness ==
    /\ inflight # << >>
    /\ inflight[1].op = "resumeQuest"
    /\ HasCheckpoint(store)
    /\ HasPausedRecord(store)
    /\ state.activeQuest # NoQuest

====
